---- MODULE Spec2Model ----
(***************************************************************************)
(* smartback: manual two-phase backpropagation (layers.py) and the         *)
(* pipeline-parallel coordinator Model (models.py).                        *)
(*                                                                         *)
(* Spec     : W ranks, each running the training step                      *)
(*            forward -> backward -> update of Model over its local        *)
(*            layers, coupled by dist.send / dist.recv / dist.barrier.     *)
(* SpecBlock: one composite layer (BertBlock, BasicResNetBlock,            *)
(*            ResNetBottleneck, MultiHeadAttention, ResNet, llamaFF) or    *)
(*            Sequential driven through initial_pass, forward,             *)
(*            backward_p1 and backward_p2: the calls it makes on its       *)
(*            children.                                                    *)
(* SpecLayer: one layer (Dense, ReLU, SiLU, Dropout, BatchNorm2D; Conv2D,  *)
(*            MaxPool2D, AvgPool2D and llamaFF by their shapes) driven     *)
(*            through the same methods: its tensors, which buffer each     *)
(*            attribute is bound to and what the buffer holds.             *)
(* SpecFair : Spec with every rank's process scheduled fairly.             *)
(* Tensors are symbolic terms (tuples), so that two tensors are equal      *)
(* exactly when they were computed by the same calls on the same inputs.   *)
(***************************************************************************)
EXTENDS Integers, Sequences, FiniteSets, TLC

\* Bounds of the model.
MaxW == 3
LayersPerRank == 2
MaxSteps == 2

VARIABLES
    W,            \* dist.get_world_size()
    multi_stage,  \* per rank: the multi_stage attribute of its layers' class
    pc,           \* per rank: position in the training step
    step,         \* per rank: number of the step it is in
    idx,          \* per rank: index of the layer loop
    cur,          \* per rank: the local variable input / dL_dout of the call
    selfx,        \* per rank: Model.x
    selfdL,       \* per rank: Model.dL_dout
    ret,          \* per rank: what Model.forward returned
    inputs,       \* per layer: cached last input (Dense.inputs)
    dL_dout,      \* per layer: cached gradient w.r.t. output (Dense.dL_dout)
    weights_g,    \* per layer: parameter gradient (Dense.weights_g)
    chan,         \* per ordered pair of ranks: messages sent and not received
    arrived,      \* per rank: number of dist.barrier() calls entered
    flog,         \* per rank: calls made by Model.forward in this step
    blog,         \* per rank: calls made by Model.backward in this step
    params,       \* per rank: number of Model.update calls applied
    bufs,         \* per rank: the tensors Model.x, Model.dL_dout name
    blk,          \* a composite layer or a Sequential (SpecBlock)
    lay           \* a primitive layer and its tensors (SpecLayer)

pvars == <<W, multi_stage, pc, step, idx, cur, selfx, selfdL, ret, inputs,
           dL_dout, weights_g, chan, arrived, flog, blog, params, bufs>>
vars == <<pvars, blk, lay>>

Ranks == 0 .. (MaxW - 1)
Live == {r \in Ranks : r < W}
Local == 1 .. LayersPerRank
Pairs == Ranks \X Ranks
LayerKeys == Ranks \X Local

\* Global number of the k-th local layer of rank r in the undivided sequence.
Gid(r, k) == r * LayersPerRank + k

(***************************************************************************)
(* Tensors as terms.                                                       *)
(***************************************************************************)
Zeros == <<"zeros">>
NoneVal == <<"None">>
Input(n) == <<"x", n>>
LossGrad(out) == <<"dloss", 0, out>>

\* Layer.forward: the output of layer g on input x.
LayerOut(g, x) == <<"forward", g, x>>
\* Layer.backward_p1: input gradient of layer g, from its cached input and d.
LayerGrad(g, in, d) == <<"backward_p1", g, in, d>>
\* Layer.backward_p2: parameter gradient of layer g.
ParamGrad(g, in, d) == <<"backward_p2", g, in, d>>

(***************************************************************************)
(* Sequential: the undivided chain of layers on one rank.                  *)
(***************************************************************************)
RECURSIVE SeqForward(_, _, _)
\* ids: layer numbers in order; cache: layer -> cached input.
SeqForward(ids, cache, x) ==
    IF ids = <<>> THEN [out |-> x, cache |-> cache]
    ELSE SeqForward(Tail(ids),
                    [cache EXCEPT ![Head(ids)] = x],
                    LayerOut(Head(ids), x))

RECURSIVE SeqBackwardP1(_, _, _)
SeqBackwardP1(ids, cache, d) ==
    IF ids = <<>> THEN d
    ELSE LET n == Len(ids)
             g == ids[n]
         IN SeqBackwardP1(SubSeq(ids, 1, n - 1), cache,
                          LayerGrad(g, cache[g], d))

(***************************************************************************)
(* Model: role of a rank, as the branches of forward and backward decide.  *)
(***************************************************************************)
ForwardRole(r, w) ==
    IF r = 0 THEN "first"
    ELSE IF r = w - 1 THEN "last"
    ELSE "interior"

BackwardRole(r, w) ==
    IF r = w - 1 THEN "last"
    ELSE IF r = 0 THEN "first"
    ELSE "interior"

\* The method the backward loop calls on each local layer.
BwdLoopMethodFwd(role) == "forward"
BwdLoopMethod(role) ==
    IF role = "interior" THEN "forward" ELSE "backward_p1"

\* Destination of the send that ends forward.
FwdSendDestPrev(r) == r - 1
FwdSendDest(r) == r + 1

\* Model.__init__ sets layers, x and dL_dout: there is no attribute rank.
HasRankAttr == FALSE

\* What follows the backward loop: rank 0 goes to the barrier, the other
\* roles send the gradient first.
AfterBwdLoopNoBarrier(role) == IF role = "first" THEN "b_sync" ELSE "b_send"
AfterBwdLoop(role) == IF role = "first" THEN "b_barrier" ELSE "b_send"

\* Destination of the gradient send of backward.
BwdSendDest(r) == r - 1

\* Every rank of the group has entered the barrier rank r is in.
BarrierOpenAlways(r) == TRUE
BarrierOpen(r) == \A q \in Live : arrived[q] >= arrived[r]

IsPrefix(s, t) == Len(s) <= Len(t) /\ SubSeq(t, 1, Len(s)) = s

\* An uncaught exception ends the rank's process.
Crash(r) == pc' = [pc EXCEPT ![r] = "crashed"]

\* Spec has no composite layer under test.
\* n: the number of layers of a Sequential; streams: len(self.streams);
\* ilog: the children whose initial_pass has been called so far, in order;
\* nfwd: the forward calls made; raised: the last method raised;
\* fcalls: the calls the latest forward made; for MultiHeadAttention n is
\* num_heads; ix, iout: what initial_pass was given and what it returned.
NoBlock == [kind |-> "none", sc |-> FALSE, dev |-> "none", phase |-> "new",
            x |-> NoneVal, d |-> NoneVal, out |-> NoneVal,
            calls |-> <<>>, res |-> <<>>,
            n |-> 0, streams |-> 0, ilog |-> <<>>, nfwd |-> 0,
            raised |-> FALSE, fcalls |-> <<>>,
            ix |-> NoneVal, iout |-> NoneVal]

\* The tensors Model.x and Model.dL_dout are bound to, and the tensors
\* handed to dist.recv so far.  Model.__init__ binds both to Ellipsis;
\* init_params allocates x on every rank but the first (a single rank is
\* the last) and dL_dout on every rank but the last.
Ellipsis == <<"Ellipsis", 0, 0>>
Prealloc == <<"torch.zeros", 0, 0>>
\* The tensor layer k returned from method in step s.
Returned(method, s, k) == <<method, s, k>>
\* num_blocks: the blocks of the whole model; local: the blocks init_params
\* created on the rank.
MaxBlocks == 4
NoBufs == [x |-> Ellipsis, dL |-> Ellipsis, recvd |-> <<>>,
           num_blocks |-> 0, local |-> 0]
\* num_local_blocks = self.num_blocks // dist.get_world_size()
NumLocalBlocks(num_blocks, w) == num_blocks \div w
InitParams(r, w, num_blocks) ==
    [x |-> IF r = w - 1 \/ r # 0 THEN Prealloc ELSE Ellipsis,
     dL |-> IF r # w - 1 THEN Prealloc ELSE Ellipsis,
     recvd |-> <<>>,
     num_blocks |-> num_blocks,
     local |-> IF r < w THEN NumLocalBlocks(num_blocks, w) ELSE 0]

\* No primitive layer has been built.
NoLayer == [kind |-> "none"]

(***************************************************************************)
(* Init: the models are built, initial_pass has allocated the caches.      *)
(* multi_stage: no layer class of layers.py defines the attribute          *)
(* ("absent": reading it raises AttributeError).  The class Transformer    *)
(* builds its layers from, layers.TransformerPPBlock, is not in layers.py, *)
(* so a layer class that sets it to True or to False is covered as well.   *)
(***************************************************************************)
Init ==
    /\ W \in 1 .. MaxW
    /\ multi_stage \in [Ranks -> {"absent", "True", "False"}]
    /\ \A r \in Ranks : r >= W => multi_stage[r] = "absent"
    /\ pc = [r \in Ranks |-> IF r < W THEN "forward" ELSE "off"]
    /\ step = [r \in Ranks |-> 1]
    /\ idx = [r \in Ranks |-> 0]
    /\ cur = [r \in Ranks |-> NoneVal]
    /\ selfx = [r \in Ranks |-> Zeros]
    /\ selfdL = [r \in Ranks |-> Zeros]
    /\ ret = [r \in Ranks |-> NoneVal]
    /\ inputs = [lk \in LayerKeys |-> Zeros]
    /\ dL_dout = [lk \in LayerKeys |-> Zeros]
    /\ weights_g = [lk \in LayerKeys |-> Zeros]
    /\ chan = [p \in Pairs |-> <<>>]
    /\ arrived = [r \in Ranks |-> 0]
    /\ flog = [r \in Ranks |-> <<>>]
    /\ blog = [r \in Ranks |-> <<>>]
    /\ params = [r \in Ranks |-> 0]
    /\ \E num_blocks \in 0 .. MaxBlocks :
          bufs = [r \in Ranks |-> InitParams(r, W, num_blocks)]
    /\ blk = NoBlock
    /\ lay = NoLayer

(***************************************************************************)
(* Model.forward                                                           *)
(***************************************************************************)
\* The training loop calls forward with this step's input.
CallForward(r) ==
    /\ pc[r] = "forward"
    /\ flog' = [flog EXCEPT ![r] = <<>>]
    /\ blog' = [blog EXCEPT ![r] = <<>>]
    /\ cur' = [cur EXCEPT ![r] = Input(step[r])]
    /\ idx' = [idx EXCEPT ![r] = 1]
    /\ ret' = [ret EXCEPT ![r] = NoneVal]
    /\ pc' = [pc EXCEPT ![r] =
                IF ForwardRole(r, W) = "first" THEN "f_loop" ELSE "f_recv"]
    /\ UNCHANGED <<W, multi_stage, step, selfx, selfdL, inputs, dL_dout,
                   weights_g, chan, arrived, params>>
    /\ UNCHANGED <<blk, lay, bufs>>

\* dist.recv(self.x, rank-1)
FwdRecv(r) ==
    /\ pc[r] = "f_recv"
    /\ r - 1 \in Ranks
    /\ chan[<<r - 1, r>>] # <<>>
    /\ selfx' = [selfx EXCEPT ![r] = Head(chan[<<r - 1, r>>]).val]
    /\ chan' = [chan EXCEPT ![<<r - 1, r>>] = Tail(@)]
    /\ flog' = [flog EXCEPT ![r] = Append(@, <<"recv", r - 1>>)]
    /\ pc' = [pc EXCEPT ![r] = "f_loop"]
    /\ UNCHANGED <<W, multi_stage, step, idx, cur, selfdL, ret, inputs,
                   dL_dout, weights_g, arrived, blog, params>>
    /\ bufs' = [bufs EXCEPT ![r].recvd = Append(@, bufs[r].x)]
    /\ UNCHANGED <<blk, lay>>

\* One iteration of "for layer in self.layers: ... = layer(...)".
FwdLayer(r) ==
    /\ pc[r] = "f_loop"
    /\ LET k == idx[r]
           role == ForwardRole(r, W)
           v == IF role = "first" THEN cur[r] ELSE selfx[r]
           out == LayerOut(Gid(r, k), v)
       IN /\ inputs' = [inputs EXCEPT ![<<r, k>>] = v]
          /\ IF role = "first"
             THEN cur' = [cur EXCEPT ![r] = out] /\ UNCHANGED selfx
             ELSE selfx' = [selfx EXCEPT ![r] = out] /\ UNCHANGED cur
          /\ flog' = [flog EXCEPT ![r] = Append(@, <<"forward", k>>)]
          /\ idx' = [idx EXCEPT ![r] = k + 1]
          /\ pc' = [pc EXCEPT ![r] =
                      IF k < LayersPerRank THEN "f_loop"
                      ELSE IF role = "last" THEN "f_ret" ELSE "f_send"]
    /\ UNCHANGED <<W, multi_stage, step, selfdL, ret, dL_dout, weights_g,
                   chan, arrived, blog, params>>
    /\ bufs' = IF ForwardRole(r, W) = "first" THEN bufs
                ELSE [bufs EXCEPT ![r].x =
                        Returned("forward", step[r], idx[r])]
    /\ UNCHANGED <<blk, lay>>

\* dist.send(..., rank+1), after which forward returns None.  The message is
\* in flight from here until the matching dist.recv takes it; a destination
\* outside the group makes dist.send raise.
FwdSend(r) ==
    /\ pc[r] = "f_send"
    /\ LET dest == FwdSendDest(r)
           v == IF ForwardRole(r, W) = "first" THEN cur[r] ELSE selfx[r]
       IN IF dest \in Live
          THEN /\ chan' = [chan EXCEPT ![<<r, dest>>] =
                              Append(@, [val |-> v, kind |-> "act",
                                         step |-> step[r]])]
               /\ flog' = [flog EXCEPT ![r] = Append(@, <<"send", dest>>)]
               /\ pc' = [pc EXCEPT ![r] = "backward"]
          ELSE /\ Crash(r)
               /\ flog' = [flog EXCEPT ![r] = Append(@, <<"raise", 0>>)]
               /\ UNCHANGED chan
    /\ UNCHANGED <<W, multi_stage, step, idx, cur, selfx, selfdL, ret, inputs,
                   dL_dout, weights_g, arrived, blog, params>>
    /\ UNCHANGED <<blk, lay, bufs>>

\* return self.x (last rank)
FwdReturn(r) ==
    /\ pc[r] = "f_ret"
    /\ ret' = [ret EXCEPT ![r] = selfx[r]]
    /\ flog' = [flog EXCEPT ![r] = Append(@, <<"return", 0>>)]
    /\ pc' = [pc EXCEPT ![r] = "backward"]
    /\ UNCHANGED <<W, multi_stage, step, idx, cur, selfx, selfdL, inputs,
                   dL_dout, weights_g, chan, arrived, blog, params>>
    /\ UNCHANGED <<blk, lay, bufs>>

(***************************************************************************)
(* Model.backward                                                          *)
(***************************************************************************)
\* The training loop calls backward with the loss gradient of the logits
\* forward returned.
CallBackward(r) ==
    /\ pc[r] = "backward"
    /\ cur' = [cur EXCEPT ![r] = LossGrad(ret[r])]
    /\ idx' = [idx EXCEPT ![r] = LayersPerRank]
    /\ pc' = [pc EXCEPT ![r] =
                IF BackwardRole(r, W) = "last" THEN "b_loop" ELSE "b_recv"]
    /\ UNCHANGED <<W, multi_stage, step, selfx, selfdL, ret, inputs, dL_dout,
                   weights_g, chan, arrived, flog, blog, params>>
    /\ UNCHANGED <<blk, lay, bufs>>

\* dist.recv(self.dL_dout, rank+1)
BwdRecv(r) ==
    /\ pc[r] = "b_recv"
    /\ r + 1 \in Ranks
    /\ chan[<<r + 1, r>>] # <<>>
    /\ selfdL' = [selfdL EXCEPT ![r] = Head(chan[<<r + 1, r>>]).val]
    /\ chan' = [chan EXCEPT ![<<r + 1, r>>] = Tail(@)]
    /\ blog' = [blog EXCEPT ![r] = Append(@, <<"recv", r + 1>>)]
    /\ pc' = [pc EXCEPT ![r] = "b_loop"]
    /\ UNCHANGED <<W, multi_stage, step, idx, cur, selfx, ret, inputs,
                   dL_dout, weights_g, arrived, flog, params>>
    /\ bufs' = [bufs EXCEPT ![r].recvd = Append(@, bufs[r].dL)]
    /\ UNCHANGED <<blk, lay>>

\* One iteration of "for layer in self.layers[::-1]", in the branch of the
\* rank's role.  On rank 0 the iteration also reads layer.multi_stage and
\* calls backward_p2.
BwdLayer(r) ==
    /\ pc[r] = "b_loop"
    /\ LET k == idx[r]
           lk == <<r, k>>
           role == BackwardRole(r, W)
           d == IF role = "last" THEN cur[r] ELSE selfdL[r]
           method == BwdLoopMethod(role)
           out == IF method = "backward_p1"
                  THEN LayerGrad(Gid(r, k), inputs[lk], d)
                  ELSE LayerOut(Gid(r, k), d)
           p2 == role = "first" /\ multi_stage[r] = "True"
           raise == role = "first" /\ multi_stage[r] = "absent"
       IN /\ IF method = "backward_p1"
             THEN /\ dL_dout' = [dL_dout EXCEPT ![lk] = d]
                  /\ UNCHANGED inputs
             ELSE /\ inputs' = [inputs EXCEPT ![lk] = d]
                  /\ UNCHANGED dL_dout
          /\ IF role = "last"
             THEN cur' = [cur EXCEPT ![r] = out] /\ UNCHANGED selfdL
             ELSE selfdL' = [selfdL EXCEPT ![r] = out] /\ UNCHANGED cur
          /\ weights_g' = IF p2
                          THEN [weights_g EXCEPT ![lk] =
                                  ParamGrad(Gid(r, k), inputs'[lk], dL_dout'[lk])]
                          ELSE weights_g
          /\ blog' = [blog EXCEPT ![r] =
                        Append(@, <<method, k>>)
                        \o (IF p2 THEN <<<<"backward_p2", k>>>>
                            ELSE IF raise THEN <<<<"raise", 0>>>>
                            ELSE <<>>)]
          /\ idx' = [idx EXCEPT ![r] = k - 1]
          /\ pc' = [pc EXCEPT ![r] =
                      IF raise THEN "crashed"
                      ELSE IF k > 1 THEN "b_loop"
                      ELSE AfterBwdLoop(role)]
    /\ UNCHANGED <<W, multi_stage, step, selfx, ret, chan, arrived, flog,
                   params>>
    /\ bufs' = IF BackwardRole(r, W) = "last" THEN bufs
                ELSE [bufs EXCEPT ![r].dL =
                        Returned(BwdLoopMethod(BackwardRole(r, W)),
                                 step[r], idx[r])]
    /\ UNCHANGED <<blk, lay>>

\* dist.send(dL_dout, dist.get_rank()-1) on the last rank,
\* dist.send(dL_dout, self.rank-1) on an interior rank.
BwdSend(r) ==
    /\ pc[r] = "b_send"
    /\ LET role == BackwardRole(r, W)
           dest == BwdSendDest(r)
       IN IF (role = "last" \/ HasRankAttr) /\ dest \in Live
          THEN /\ chan' = [chan EXCEPT ![<<r, dest>>] =
                              Append(@, [val |-> cur[r], kind |-> "grad",
                                         step |-> step[r]])]
               /\ blog' = [blog EXCEPT ![r] = Append(@, <<"send", dest>>)]
               /\ pc' = [pc EXCEPT ![r] = "b_ms"]
          ELSE /\ Crash(r)
               /\ blog' = [blog EXCEPT ![r] = Append(@, <<"raise", 0>>)]
               /\ UNCHANGED chan
    /\ UNCHANGED <<W, multi_stage, step, idx, cur, selfx, selfdL, ret, inputs,
                   dL_dout, weights_g, arrived, flog, params>>
    /\ UNCHANGED <<blk, lay, bufs>>

\* "if layer.multi_stage:" after the loop: layer is the loop's last layer.
BwdMultiStage(r) ==
    /\ pc[r] = "b_ms"
    /\ pc' = [pc EXCEPT ![r] =
                IF multi_stage[r] = "absent" THEN "crashed"
                ELSE IF multi_stage[r] = "True" THEN "b_p2"
                ELSE "b_barrier"]
    /\ blog' = [blog EXCEPT ![r] =
                  IF multi_stage[r] = "absent"
                  THEN Append(@, <<"raise", 0>>) ELSE @]
    /\ idx' = [idx EXCEPT ![r] = 1]
    /\ UNCHANGED <<W, multi_stage, step, cur, selfx, selfdL, ret, inputs,
                   dL_dout, weights_g, chan, arrived, flog, params>>
    /\ UNCHANGED <<blk, lay, bufs>>

\* One iteration of "for layer in self.layers: layer.backward_p2()".
BwdP2(r) ==
    /\ pc[r] = "b_p2"
    /\ LET k == idx[r]
           lk == <<r, k>>
       IN /\ weights_g' = [weights_g EXCEPT ![lk] =
                             ParamGrad(Gid(r, k), inputs[lk], dL_dout[lk])]
          /\ blog' = [blog EXCEPT ![r] = Append(@, <<"backward_p2", k>>)]
          /\ idx' = [idx EXCEPT ![r] = k + 1]
          /\ pc' = [pc EXCEPT ![r] =
                      IF k < LayersPerRank THEN "b_p2" ELSE "b_barrier"]
    /\ UNCHANGED <<W, multi_stage, step, cur, selfx, selfdL, ret, inputs,
                   dL_dout, chan, arrived, flog, params>>
    /\ UNCHANGED <<blk, lay, bufs>>

\* dist.barrier(): the rank enters the collective.
BarrierEnter(r) ==
    /\ pc[r] \in {"b_barrier", "u_barrier"}
    /\ arrived' = [arrived EXCEPT ![r] = @ + 1]
    /\ pc' = [pc EXCEPT ![r] = IF pc[r] = "b_barrier" THEN "b_wait" ELSE "u_wait"]
    /\ UNCHANGED <<W, multi_stage, step, idx, cur, selfx, selfdL, ret, inputs,
                   dL_dout, weights_g, chan, flog, blog, params>>
    /\ UNCHANGED <<blk, lay, bufs>>

\* dist.barrier() returns once every rank has entered it.  After the barrier
\* of update the training loop goes on to the next step.
BarrierLeave(r) ==
    /\ pc[r] \in {"b_wait", "u_wait"}
    /\ BarrierOpen(r)
    /\ IF pc[r] = "b_wait"
       THEN /\ blog' = [blog EXCEPT ![r] = Append(@, <<"barrier", 0>>)]
            /\ pc' = [pc EXCEPT ![r] = "b_sync"]
            /\ UNCHANGED step
       ELSE /\ step' = [step EXCEPT ![r] = @ + 1]
            /\ pc' = [pc EXCEPT ![r] =
                        IF step[r] < MaxSteps THEN "forward" ELSE "done"]
            /\ UNCHANGED blog
    /\ UNCHANGED <<W, multi_stage, idx, cur, selfx, selfdL, ret, inputs,
                   dL_dout, weights_g, chan, arrived, flog, params>>
    /\ UNCHANGED <<blk, lay, bufs>>

\* torch.cuda.synchronize(), after which backward returns.
Synchronize(r) ==
    /\ pc[r] = "b_sync"
    /\ blog' = [blog EXCEPT ![r] = Append(@, <<"synchronize", 0>>)]
    /\ pc' = [pc EXCEPT ![r] = "update"]
    /\ UNCHANGED <<W, multi_stage, step, idx, cur, selfx, selfdL, ret, inputs,
                   dL_dout, weights_g, chan, arrived, flog, params>>
    /\ UNCHANGED <<blk, lay, bufs>>

(***************************************************************************)
(* Model.update: every layer's update, a synchronize, then the barrier.    *)
(* The layers' update is the optimizer's: it is counted, not computed.     *)
(***************************************************************************)
Update(r) ==
    /\ pc[r] = "update"
    /\ params' = [params EXCEPT ![r] = @ + 1]
    /\ pc' = [pc EXCEPT ![r] = "u_barrier"]
    /\ UNCHANGED <<W, multi_stage, step, idx, cur, selfx, selfdL, ret, inputs,
                   dL_dout, weights_g, chan, arrived, flog, blog>>
    /\ UNCHANGED <<blk, lay, bufs>>

Next ==
    \/ \E r \in Live : CallForward(r)
    \/ \E r \in Live : FwdRecv(r)
    \/ \E r \in Live : FwdLayer(r)
    \/ \E r \in Live : FwdSend(r)
    \/ \E r \in Live : FwdReturn(r)
    \/ \E r \in Live : CallBackward(r)
    \/ \E r \in Live : BwdRecv(r)
    \/ \E r \in Live : BwdLayer(r)
    \/ \E r \in Live : BwdSend(r)
    \/ \E r \in Live : BwdMultiStage(r)
    \/ \E r \in Live : BwdP2(r)
    \/ \E r \in Live : BarrierEnter(r)
    \/ \E r \in Live : BarrierLeave(r)
    \/ \E r \in Live : Synchronize(r)
    \/ \E r \in Live : Update(r)

Spec == Init /\ [][Next]_vars

\* Every rank is a process of its own: a rank that can take its next step
\* takes it, and a message that was sent can be received.
RankStep(r) ==
    \/ CallForward(r) \/ FwdRecv(r) \/ FwdLayer(r) \/ FwdSend(r)
    \/ FwdReturn(r) \/ CallBackward(r) \/ BwdRecv(r) \/ BwdLayer(r)
    \/ BwdSend(r) \/ BwdMultiStage(r) \/ BwdP2(r) \/ BarrierEnter(r)
    \/ BarrierLeave(r) \/ Synchronize(r) \/ Update(r)
Fairness == \A r \in Ranks : WF_vars(r \in Live /\ RankStep(r))
SpecFair == Init /\ [][Next]_vars /\ Fairness

(***************************************************************************)
(* Composite layers with a skip connection.  A child layer is named by its *)
(* attribute and key; tensors are terms <<operation, child, arguments>>.   *)
(***************************************************************************)
MaxInputs == 2

BlockIn(i) == <<"x", "", <<i>>>>
BlockGrad(i) == <<"dL_dout", "", <<i>>>>
Fwd(c, x) == <<"forward", c, <<x>>>>
Bp1(c, d) == <<"backward_p1", c, <<d>>>>
Add(a, b) == <<"add", "", <<a, b>>>>

\* s[::-1]
SameOrder(s) == s
Rev(s) == [i \in 1 .. Len(s) |-> s[Len(s) + 1 - i]]
ACall(c, method, arg) == [child |-> c, method |-> method, arg |-> arg]
\* initial_pass of a child computes what its forward computes.
Value(method, c, v) == IF method = "backward_p1" THEN Bp1(c, v) ELSE Fwd(c, v)

RECURSIVE Chain(_, _, _)
\* out = child_n.method(... child_1.method(v)), with the calls made.
Chain(method, children, v) ==
    IF children = <<>> THEN [out |-> v, calls |-> <<>>]
    ELSE LET c == Head(children)
             rest == Chain(method, Tail(children), Value(method, c, v))
         IN [out |-> rest.out,
             calls |-> <<ACall(c, method, v)>> \o rest.calls]

\* BertBlock.initial_pass and BertBlock.forward make the same calls.
BertRun(method, x) ==
    LET mh_out == Add(Value(method, "multihead", x), x)
        n == Chain(method, <<"norms_multi_head", "dropouts_multi_head">>, mh_out)
        norm_mh_out == n.out
        f == Chain(method, <<"linears_0", "ff_act", "linears_1">>, norm_mh_out)
        ff2 == Add(f.out, norm_mh_out)
        o == Chain(method, <<"norms_ff", "dropouts_ff">>, ff2)
    IN [out |-> o.out,
        calls |-> <<ACall("multihead", method, x)>> \o n.calls \o f.calls
                  \o o.calls,
        res |-> <<>>]

\* The shortcut branch receives dL_dout where the main branch receives
\* dL_dff2.
BertBackwardP1(dLdout) ==
    LET dL_dff2norm == Bp1("dropouts_ff", dLdout)
        dL_dff2 == Bp1("norms_ff", dL_dff2norm)
        dL_da == Bp1("linears_1", dL_dff2)
        dL_dff1 == Bp1("ff_act", dL_da)
        dL_dlin0 == Bp1("linears_0", dL_dff1)
        dL_dnormmhout == Add(dL_dlin0, dLdout)
        dL_dnormmhout2 == Bp1("dropouts_multi_head", dL_dnormmhout)
        dL_dmhout == Bp1("norms_multi_head", dL_dnormmhout2)
        dL_din1 == Bp1("multihead", dL_dmhout)
    IN [out |-> Add(dL_din1, dL_dmhout),
        calls |-> <<ACall("dropouts_ff", "backward_p1", dLdout),
                    ACall("norms_ff", "backward_p1", dL_dff2norm),
                    ACall("linears_1", "backward_p1", dL_dff2),
                    ACall("ff_act", "backward_p1", dL_da),
                    ACall("linears_0", "backward_p1", dL_dff1),
                    ACall("dropouts_multi_head", "backward_p1", dL_dnormmhout),
                    ACall("norms_multi_head", "backward_p1", dL_dnormmhout2),
                    ACall("multihead", "backward_p1", dL_dmhout)>>,
        \* one record per residual addition: the gradient at the addition,
        \* what the main and the shortcut branch are handed, what they
        \* return and what the block makes of the two.
        res |-> <<[at |-> dL_dff2, main |-> dL_dff2, skip |-> dLdout,
                   mainOut |-> dL_dlin0, skipOut |-> dLdout,
                   sum |-> dL_dnormmhout],
                  [at |-> dL_dmhout, main |-> dL_dmhout, skip |-> dL_dmhout,
                   mainOut |-> dL_din1, skipOut |-> dL_dmhout,
                   sum |-> Add(dL_din1, dL_dmhout)]>>]

\* The children of the ResNet blocks: main branch up to the addition, the
\* activation after it, and the shortcut (empty when the block keeps shape).
MainBranch(kind) ==
    IF kind = "BasicResNetBlock"
    THEN <<"convs_0", "batchnorms_0", "relus_0", "convs_1", "batchnorms_1">>
    ELSE <<"convs_0", "batchnorms_0", "relus_0", "convs_1", "batchnorms_1",
           "relus_1", "convs_2", "batchnorms_2">>
LastRelu(kind) == IF kind = "BasicResNetBlock" THEN "relus_1" ELSE "relus_2"
Shortcut(sc) == IF sc THEN <<"shortcut_0", "shortcut_1">> ELSE <<>>

\* initial_pass and forward of BasicResNetBlock and ResNetBottleneck.
ResNetRun(kind, sc, method, x) ==
    LET m == Chain(method, MainBranch(kind), x)
        s == Chain(method, Shortcut(sc), x)
        sum == Add(m.out, s.out)
    IN [out |-> Value(method, LastRelu(kind), sum),
        calls |-> m.calls \o s.calls \o <<ACall(LastRelu(kind), method, sum)>>,
        res |-> <<>>]

\* backward_p1 of BasicResNetBlock and ResNetBottleneck.
ResNetBackwardP1(kind, sc, dLdout) ==
    LET dL_dshortcut == Bp1(LastRelu(kind), dLdout)
        m == Chain("backward_p1", Rev(MainBranch(kind)), dL_dshortcut)
        dL_din1 == m.out
        s == Chain("backward_p1", Rev(Shortcut(sc)), dL_dshortcut)
        dL_din2 == s.out
    IN [out |-> Add(dL_din1, dL_din2),
        calls |-> <<ACall(LastRelu(kind), "backward_p1", dLdout)>>
                  \o m.calls \o s.calls,
        res |-> <<[at |-> dL_dshortcut, main |-> dL_dshortcut,
                   skip |-> dL_dshortcut,
                   mainOut |-> dL_din1, skipOut |-> dL_din2,
                   sum |-> Add(dL_din1, dL_din2)]>>]

Convs(kind) ==
    IF kind = "BasicResNetBlock" THEN <<"convs_0", "convs_1">>
    ELSE <<"convs_0", "convs_1", "convs_2">>
Batchnorms(kind) ==
    IF kind = "BasicResNetBlock" THEN <<"batchnorms_0", "batchnorms_1">>
    ELSE <<"batchnorms_0", "batchnorms_1", "batchnorms_2">>

\* The children whose backward_p2 the block's backward_p2 calls, in order.
P2Children(kind, sc) ==
    IF kind = "BertBlock"
    THEN <<"multihead", "linears_0", "linears_1", "norms_multi_head",
           "norms_ff">>
    ELSE Convs(kind) \o Batchnorms(kind) \o Shortcut(sc)

(***************************************************************************)
(* The other composites: Sequential, MultiHeadAttention, ResNet, llamaFF.  *)
(***************************************************************************)
MaxSeqLen == 3
MaxForwards == 2

LayerNames == <<"layers_0", "layers_1", "layers_2", "layers_3", "layers_4",
                "layers_5">>
\* self.layers of a Sequential of n layers
SeqLayers(n) == SubSeq(LayerNames, 1, n)

\* Sequential.initial_pass and Sequential.forward
SequentialRun(n, method, x) ==
    LET c == Chain(method, SeqLayers(n), x)
    IN [out |-> c.out, calls |-> c.calls, res |-> <<>>]

\* "for layer in self.layers"
SeqBackwardOrderFwd(n) == SeqLayers(n)
\* "for layer in self.layers[::-1]"
SeqBackwardOrder(n) == Rev(SeqLayers(n))

\* Sequential.backward_p1
SequentialBackwardP1(n, dLdout) ==
    LET c == Chain("backward_p1", SeqBackwardOrder(n), dLdout)
    IN [out |-> c.out, calls |-> c.calls, res |-> <<>>]

\* MultiHeadAttention takes Q, K and V; input i of the block stands for the
\* three of them.
QKV(x, k) == <<"x", k, x[3]>>
\* QK_T has one score per query position s, head h and key position t.
MaxHeads == 2
MaxKeys == 2
ScoreIndex(heads) == (1 .. MaxKeys) \X (1 .. heads) \X (1 .. MaxKeys)
\* The scores a softmax sums in the denominator of each score.
\* torch.softmax(QK_T, dim=-1): the key positions of one query row of one
\* head.
SoftmaxLastDim(heads) ==
    [i \in ScoreIndex(heads) |->
        {j \in ScoreIndex(heads) : j[1] = i[1] /\ j[2] = i[2]}]
\* vmap(vmap(_softmax))(QK_T): _softmax is handed the scores of one query
\* row, heads x keys, and torch.sum(e_x) sums all of them.
SoftmaxPerRow(heads) ==
    [i \in ScoreIndex(heads) |-> {j \in ScoreIndex(heads) : j[1] = i[1]}]
MhaSoftmax(method, heads) ==
    <<"softmax", "",
      <<IF method = "initial_pass" THEN SoftmaxLastDim(heads)
        ELSE SoftmaxPerRow(heads)>>>>
Attention(sm, lQ, lK, lV) == <<"attention", "", <<sm, lQ, lK, lV>>>>
Tuple3(a, b, c) == <<"tuple", "", <<a, b, c>>>>
\* The gradient of the attention output with respect to lQ, lK or lV.
AttGrad(k, dL_dAtt) == <<"attention_grad", k, <<dL_dAtt>>>>

\* MultiHeadAttention.initial_pass and MultiHeadAttention.forward
MhaRun(heads, method, x) ==
    LET q == Chain(method, <<"linears_Q", "dropouts_Q">>, QKV(x, "Q"))
        k == Chain(method, <<"linears_K", "dropouts_K">>, QKV(x, "K"))
        v == Chain(method, <<"linears_V", "dropouts_V">>, QKV(x, "V"))
        out == Attention(MhaSoftmax(method, heads), q.out, k.out, v.out)
    IN [out |-> Value(method, "linears_O", out),
        calls |-> q.calls \o k.calls \o v.calls
                  \o <<ACall("linears_O", method, out)>>,
        res |-> <<>>]

\* MultiHeadAttention.backward_p1
MhaBackwardP1(dLdout) ==
    LET dL_dAtt == Bp1("linears_O", dLdout)
        q == Chain("backward_p1", <<"dropouts_Q", "linears_Q">>,
                   AttGrad("Q", dL_dAtt))
        k == Chain("backward_p1", <<"dropouts_K", "linears_K">>,
                   AttGrad("K", dL_dAtt))
        v == Chain("backward_p1", <<"dropouts_V", "linears_V">>,
                   AttGrad("V", dL_dAtt))
    IN [out |-> Tuple3(q.out, k.out, v.out),
        calls |-> <<ACall("linears_O", "backward_p1", dLdout)>>
                  \o q.calls \o k.calls \o v.calls,
        res |-> <<>>]

View(x) == <<"view", "", <<x>>>>

\* ResNet.initial_pass and ResNet.forward
ResNetNetRun(method, x) ==
    LET a == Chain(method, <<"conv1", "bn1", "relu", "layers1", "layers2",
                             "layers3", "layers4", "avgpool">>, x)
        flat == View(a.out)
    IN [out |-> Value(method, "linear", flat),
        calls |-> a.calls \o <<ACall("linear", method, flat)>>,
        res |-> <<>>]

\* ResNet.backward_p1
ResNetNetBackwardP1(dLdout) ==
    LET dL_davgpool == View(Bp1("linear", dLdout))
        a == Chain("backward_p1",
                   <<"avgpool", "layers4", "layers3", "layers2", "layers1",
                     "relu", "bn1", "conv1">>, dL_davgpool)
    IN [out |-> a.out,
        calls |-> <<ACall("linear", "backward_p1", dLdout)>> \o a.calls,
        res |-> <<>>]

Mul(a, b) == <<"mul", "", <<a, b>>>>
\* a tensor the block keeps in an attribute
Attr(name) == <<"attr", name, <<0>>>>

\* llamaFF.initial_pass and llamaFF.forward.  forward calls
\* self.silu.initial_pass(l0) before self.silu(l0).
LlamaRun(method, x) ==
    LET l0 == Value(method, "linears_0", x)
        l2 == Value(method, "linears_2", x)
        silu_out == Fwd("silu", l0)
        gated == Mul(silu_out, l2)
    IN [out |-> Value(method, "linears_1", gated),
        calls |-> <<ACall("linears_0", method, x),
                    ACall("linears_2", method, x),
                    ACall("silu", "initial_pass", l0)>>
                  \o (IF method = "forward"
                      THEN <<ACall("silu", "forward", l0)>> ELSE <<>>)
                  \o <<ACall("linears_1", method, gated)>>,
        res |-> <<>>]

\* llamaFF.backward_p1
LlamaBackwardP1(dLdout) ==
    LET dL_dl2in == Bp1("linears_1", dLdout)
        dL_dl0 == Bp1("silu", dL_dl2in)
        dL_dx1 == Mul(Bp1("linears_0", dL_dl0), Attr("l2"))
        dL_dx2 == Mul(Bp1("linears_2", dL_dl2in), Attr("silu_out"))
    IN [out |-> Add(dL_dx1, dL_dx2),
        calls |-> <<ACall("linears_1", "backward_p1", dLdout),
                    ACall("silu", "backward_p1", dL_dl2in),
                    ACall("linears_0", "backward_p1", dL_dl0),
                    ACall("linears_2", "backward_p1", dL_dl2in)>>,
        res |-> <<>>]

BlockRun(kind, sc, method, x) ==
    IF kind = "BertBlock" THEN BertRun(method, x)
    ELSE ResNetRun(kind, sc, method, x)
BlockBackwardP1(kind, sc, d) ==
    IF kind = "BertBlock" THEN BertBackwardP1(d)
    ELSE ResNetBackwardP1(kind, sc, d)

\* initial_pass (method = "initial_pass") or forward of composite b
CompositeRun(b, method, x) ==
    CASE b.kind = "Sequential" -> SequentialRun(b.n, method, x)
      [] b.kind = "MultiHeadAttention" -> MhaRun(b.n, method, x)
      [] b.kind = "ResNet" -> ResNetNetRun(method, x)
      [] b.kind = "llamaFF" -> LlamaRun(method, x)
      [] OTHER -> BlockRun(b.kind, b.sc, method, x)
CompositeBackwardP1(b, d) ==
    CASE b.kind = "Sequential" -> SequentialBackwardP1(b.n, d)
      [] b.kind = "MultiHeadAttention" -> MhaBackwardP1(d)
      [] b.kind = "ResNet" -> ResNetNetBackwardP1(d)
      [] b.kind = "llamaFF" -> LlamaBackwardP1(d)
      [] OTHER -> BlockBackwardP1(b.kind, b.sc, d)

\* The children that hold parameters (Dense, Conv2D, BatchNorm2D,
\* NLPLayerNorm, a MultiHeadAttention or a Sequential of blocks); every layer
\* of a Sequential counts, an activation's backward_p2 being "pass".
Parameterized(b) ==
    CASE b.kind = "Sequential" -> {SeqLayers(b.n)[i] : i \in 1 .. b.n}
      [] b.kind = "MultiHeadAttention" ->
           {"linears_Q", "linears_K", "linears_V", "linears_O"}
      [] b.kind = "BertBlock" ->
           {"multihead", "linears_0", "linears_1", "norms_multi_head",
            "norms_ff"}
      [] b.kind = "ResNet" ->
           {"conv1", "bn1", "layers1", "layers2", "layers3", "layers4",
            "linear"}
      [] b.kind = "llamaFF" -> {"linears_0", "linears_1", "linears_2"}
      [] OTHER ->
           LET cs == Convs(b.kind) \o Batchnorms(b.kind) \o Shortcut(b.sc)
           IN {cs[i] : i \in DOMAIN cs}

Min(a, b) == IF a <= b THEN a ELSE b
Max(a, b) == IF a >= b THEN a ELSE b

\* len(self.streams) after initial_pass of an input on device dev
NumStreams(kind, sc, n, dev) ==
    IF dev # "cuda" THEN 0
    ELSE CASE kind = "Sequential" -> n
           [] kind = "MultiHeadAttention" -> 4
           [] kind = "BertBlock" -> 5
           [] kind = "ResNet" -> 3 + 4
           [] kind = "llamaFF" -> 3
           [] OTHER -> Len(Convs(kind)) + Len(Batchnorms(kind))
                       + Len(Shortcut(sc))

\* Who runs backward_p2 on which stream.  stream is an index into
\* self.streams, or -1 where the code opens no stream.
\* self.streams[lo:hi] of a list of ns streams
Slice(ns, lo, hi) == [i \in 1 .. Max(0, Min(hi, ns) - lo) |-> lo + i - 1]
\* zip(children, streams)
Zip(cs, ss) ==
    [i \in 1 .. Min(Len(cs), Len(ss)) |-> [child |-> cs[i], stream |-> ss[i]]]
\* every child on self.streams[off]
IndexedOverlap(cs, off) ==
    [i \in DOMAIN cs |-> [child |-> cs[i], stream |-> off]]
\* enumerate(children) with self.streams[i + off]
Indexed(cs, off) ==
    [i \in DOMAIN cs |-> [child |-> cs[i], stream |-> off + i - 1]]
NoStream(cs) == [i \in DOMAIN cs |-> [child |-> cs[i], stream |-> -1]]

MhaLinears == <<"linears_Q", "linears_K", "linears_V", "linears_O">>
LlamaLinears == <<"linears_0", "linears_1", "linears_2">>
ResNetP2Children ==
    <<"conv1", "bn1", "linear", "layers1", "layers2", "layers3", "layers4">>

\* The backward_p2 calls of composite b's backward_p2, in order.
P2Plan(b) ==
    CASE b.kind = "Sequential" ->
           IF b.dev = "cuda" THEN Indexed(SeqLayers(b.n), 0)
           ELSE NoStream(SeqLayers(b.n))
      [] b.kind = "MultiHeadAttention" ->
           IF b.dev = "cuda"
           THEN Zip(MhaLinears, Slice(b.streams, 0, b.streams))
           ELSE NoStream(MhaLinears)
      [] b.kind = "BertBlock" ->
           IF b.dev = "cuda"
           THEN Indexed(<<"multihead">>, 0)
                \o Zip(<<"linears_0", "linears_1">>, Slice(b.streams, 1, 3))
                \o Zip(<<"norms_multi_head", "norms_ff">>,
                       Slice(b.streams, 3, b.streams))
           ELSE NoStream(P2Children(b.kind, b.sc))
      [] b.kind = "ResNet" -> Indexed(ResNetP2Children, 0)
      [] b.kind = "llamaFF" ->
           IF b.dev = "cuda"
           THEN Zip(LlamaLinears, Slice(b.streams, 0, b.streams))
           ELSE NoStream(LlamaLinears)
      [] OTHER ->
           IF b.dev = "cuda"
           THEN Indexed(Convs(b.kind), 0)
                \o Indexed(Batchnorms(b.kind), Len(Convs(b.kind)))
                \o Indexed(Shortcut(b.sc),
                           Len(Convs(b.kind)) + Len(Batchnorms(b.kind)))
           ELSE NoStream(P2Children(b.kind, b.sc))

\* self.streams[i] of a list of ns streams raises IndexError.
BadIndex(plan, ns) == {i \in DOMAIN plan : plan[i].stream >= ns}
\* The part of the plan that runs: up to the first IndexError.
P2Ran(plan, ns) ==
    IF BadIndex(plan, ns) = {} THEN plan
    ELSE SubSeq(plan, 1,
                (CHOOSE i \in BadIndex(plan, ns) :
                    \A j \in BadIndex(plan, ns) : i <= j) - 1)

\* The children whose initial_pass a sequence of calls invokes.
InitialPasses(calls) ==
    LET sel == SelectSeq(calls, LAMBDA c : c.method = "initial_pass")
    IN [i \in DOMAIN sel |-> sel[i].child]

BlockConfigs ==
    {<<"BertBlock", FALSE, 0>>}
    \cup ({"BasicResNetBlock", "ResNetBottleneck"} \X BOOLEAN \X {0})
    \cup ({"ResNet", "llamaFF"} \X {FALSE} \X {0})
    \cup ({"MultiHeadAttention"} \X {FALSE} \X (1 .. MaxHeads))
    \cup ({"Sequential"} \X {FALSE} \X (1 .. MaxSeqLen))

\* No rank of Spec runs.
PipelineIdle ==
    /\ W = 0
    /\ multi_stage = [r \in Ranks |-> "absent"]
    /\ pc = [r \in Ranks |-> "off"]
    /\ step = [r \in Ranks |-> 1]
    /\ idx = [r \in Ranks |-> 0]
    /\ cur = [r \in Ranks |-> NoneVal]
    /\ selfx = [r \in Ranks |-> Zeros]
    /\ selfdL = [r \in Ranks |-> Zeros]
    /\ ret = [r \in Ranks |-> NoneVal]
    /\ inputs = [lk \in LayerKeys |-> Zeros]
    /\ dL_dout = [lk \in LayerKeys |-> Zeros]
    /\ weights_g = [lk \in LayerKeys |-> Zeros]
    /\ chan = [p \in Pairs |-> <<>>]
    /\ arrived = [r \in Ranks |-> 0]
    /\ flog = [r \in Ranks |-> <<>>]
    /\ blog = [r \in Ranks |-> <<>>]
    /\ params = [r \in Ranks |-> 0]
    /\ bufs = [r \in Ranks |-> NoBufs]

\* A block as its constructor leaves it.
InitBlock ==
    /\ PipelineIdle
    /\ lay = NoLayer
    /\ \E cf \in BlockConfigs :
          blk = [NoBlock EXCEPT !.kind = cf[1], !.sc = cf[2], !.n = cf[3]]

\* initial_pass(x): records the device of x, allocates the streams and runs
\* the children's initial_pass.
BlockInitialPassCall ==
    /\ blk.phase = "new"
    /\ \E i \in 1 .. MaxInputs, dev \in {"cpu", "cuda"} :
          LET run == CompositeRun(blk, "initial_pass", BlockIn(i))
          IN blk' = [blk EXCEPT
                       !.phase = "init", !.dev = dev,
                       !.streams = NumStreams(blk.kind, blk.sc, blk.n, dev),
                       !.x = BlockIn(i), !.out = run.out,
                       !.ix = BlockIn(i), !.iout = run.out,
                       !.calls = run.calls, !.res = run.res,
                       !.ilog = InitialPasses(run.calls),
                       !.raised = FALSE]
    /\ UNCHANGED <<pvars, lay>>

BlockForwardCall ==
    /\ blk.phase # "new"
    /\ blk.nfwd < MaxForwards
    /\ \E i \in 1 .. MaxInputs :
          LET run == CompositeRun(blk, "forward", BlockIn(i))
          IN blk' = [blk EXCEPT !.phase = "fwd", !.x = BlockIn(i),
                                !.out = run.out, !.calls = run.calls,
                                !.res = run.res, !.fcalls = run.calls,
                                !.ilog = @ \o InitialPasses(run.calls),
                                !.nfwd = @ + 1,
                                !.raised = FALSE]
    /\ UNCHANGED <<pvars, lay>>

BlockBackwardP1Call ==
    /\ blk.phase \in {"fwd", "bp1", "bp2"}
    /\ \E i \in 1 .. MaxInputs :
          LET run == CompositeBackwardP1(blk, BlockGrad(i))
          IN blk' = [blk EXCEPT !.phase = "bp1", !.d = BlockGrad(i),
                                !.out = run.out, !.calls = run.calls,
                                !.res = run.res,
                                !.raised = FALSE]
    /\ UNCHANGED <<pvars, lay>>

\* backward_p2: the children's backward_p2, each inside the stream the plan
\* gives it; indexing self.streams out of range raises IndexError and ends
\* the method.
BlockBackwardP2Call ==
    /\ blk.phase \in {"bp1", "bp2"}
    /\ LET plan == P2Plan(blk)
           ran == P2Ran(plan, blk.streams)
       IN blk' = [blk EXCEPT
                    !.phase = "bp2",
                    !.calls = [i \in DOMAIN ran |->
                                 ACall(ran[i].child, "backward_p2",
                                       IF ran[i].stream >= 0
                                       THEN <<"stream", "", <<ran[i].stream>>>>
                                       ELSE NoneVal)],
                    !.res = <<>>,
                    !.raised = (BadIndex(plan, blk.streams) # {})]
    /\ UNCHANGED <<pvars, lay>>

NextBlock ==
    \/ BlockInitialPassCall
    \/ BlockForwardCall
    \/ BlockBackwardP1Call
    \/ BlockBackwardP2Call

SpecBlock == InitBlock /\ [][NextBlock]_vars

(***************************************************************************)
(* Primitive layers.  A tensor is a buffer id with the value the buffer    *)
(* holds; an attribute of the layer is bound to a tensor.  "self.a = t"    *)
(* binds attribute a to another buffer, "self.a[:] = v" writes v into the  *)
(* buffer a is bound to.  Values of Dense, ReLU and Dropout are integer    *)
(* matrices, one row per sample; those of BatchNorm2D are terms.           *)
(***************************************************************************)
MaxCalls == 5

Tensor(id, v) == [id |-> id, v |-> v]
NoTensor == [id |-> 0, v |-> <<>>]
\* self.name = t
Bind(at, name, t) == (name :> t) @@ at
\* self.name[:] = v
Store(at, name, v) == [at EXCEPT ![name].v = v]

RECURSIVE SumSeq(_)
SumSeq(s) == IF s = <<>> THEN 0 ELSE Head(s) + SumSeq(Tail(s))
Rows(m) == Len(m)
Cols(m) == Len(m[1])
Shape(m) == <<Rows(m), Cols(m)>>
MatMul(a, b) ==
    [i \in 1 .. Rows(a) |->
        [j \in 1 .. Cols(b) |->
            SumSeq([k \in 1 .. Cols(a) |-> a[i][k] * b[k][j]])]]
Transpose(m) == [j \in 1 .. Cols(m) |-> [i \in 1 .. Rows(m) |-> m[i][j]]]
AddBias(m, b) == [i \in DOMAIN m |-> [j \in DOMAIN m[i] |-> m[i][j] + b[j]]]
MatAdd(a, b) == [i \in DOMAIN a |-> [j \in DOMAIN a[i] |-> a[i][j] + b[i][j]]]
Hadamard(a, b) ==
    [i \in DOMAIN a |-> [j \in DOMAIN a[i] |-> a[i][j] * b[i][j]]]
\* torch.sum over every dimension but the last, kept as one row
ColSums(m) ==
    <<[j \in 1 .. Cols(m) |-> SumSeq([i \in 1 .. Rows(m) |-> m[i][j]])]>>
\* torch.ones_like, torch.zeros_like
OnesLike(m) == [i \in DOMAIN m |-> [j \in DOMAIN m[i] |-> 1]]
\* a tensor of the same shape that is not zero
NotZerosLike(m) == [i \in DOMAIN m |-> [j \in DOMAIN m[i] |-> 1]]
ZerosLike(m) == [i \in DOMAIN m |-> [j \in DOMAIN m[i] |-> 0]]

\* "g[:] = new" against "g += new"
Accumulate(old, new) == MatAdd(old, new)
Overwrite(old, new) == new
StoreGrad(at, name, g) == [at EXCEPT ![name].v = Overwrite(@, g)]

\* The tensors the callers pass in: x (and dL_dout) of two samples.
LayerInputs == {<<<<1, -1>>, <<0, 2>>>>, <<<<2, 1>>, <<-1, 0>>>>}
LayerGrads == {<<<<1, 0>>, <<1, 1>>>>, <<<<0, -1>>, <<2, 1>>>>}
\* torch.randn(input_size, output_size), torch.randn(output_size)
DenseParams ==
    {[weights |-> <<<<1, 2>>, <<0, 1>>>>, bias |-> <<1, -1>>],
     [weights |-> <<<<1, 0>>, <<-1, 1>>>>, bias |-> <<0, 1>>]}
\* Dense(4, 3) with weights and bias set by hand, one sample of its input
\* and one gradient of its output.
FixedDense ==
    [weights |-> <<<<1, 0, 0>>, <<0, 1, 0>>, <<0, 0, 1>>, <<1, 1, 1>>>>,
     bias |-> <<0, 0, 0>>]
FixedInput == <<<<1, 2, 3, 4>>>>
FixedGrad == <<<<1, 1, 1>>>>

\* A layer as its constructor leaves it.  at: the tensor attributes;
\* next: the id the next new buffer gets; arg: the tensor the last call
\* was given; out: the tensor it returned; hist: the methods called so far;
\* pre: the attributes as they were before the last call; init: the buffer
\* ids and the output shape at the end of initial_pass and the tensor x0
\* initial_pass was given; draws, sample: the
\* torch.bernoulli calls made and the last result; tr: self.training as
\* the last call found it; pdraws: draws before the last call; k, pad,
\* stride: kernel size, padding and stride of a convolution or a pooling;
\* dim, hidden: the sizes of the linears of llamaFF; fsame: the latest
\* forward returned the very tensor it was given.
Built(kind, p, ndim, at, next) ==
    [kind |-> kind, p |-> p, training |-> TRUE, ndim |-> ndim,
     k |-> 0, pad |-> 0, stride |-> 1, dim |-> 0, hidden |-> 0,
     at |-> at, next |-> next, phase |-> "new", hist |-> <<>>,
     pre |-> at, init |-> <<>>, oshape |-> <<>>, x |-> <<>>, d |-> <<>>,
     arg |-> NoTensor, out |-> NoTensor, raised |-> FALSE,
     draws |-> 0, sample |-> <<>>, tr |-> TRUE, pdraws |-> 0,
     fsame |-> FALSE]

\* Dense.__init__
DenseNew(prm, ndim) ==
    Built("Dense", 0, ndim,
          ("weights" :> Tensor(1, prm.weights))
          @@ ("bias" :> Tensor(2, prm.bias))
          @@ ("weights_g" :> Tensor(3, ZerosLike(prm.weights)))
          @@ ("bias_g" :> Tensor(4, <<[j \in DOMAIN prm.bias |-> 0]>>)),
          5)

DenseOut(l, x) == AddBias(MatMul(x, l.at["weights"].v), l.at["bias"].v)

\* Dense.initial_pass: the caches are allocated, x is not stored.
DenseInitialPass(l, x) ==
    [l EXCEPT !.at = Bind(Bind(@, "inputs", Tensor(l.next, ZerosLike(x))),
                          "dL_dout",
                          Tensor(l.next + 2, ZerosLike(DenseOut(l, x)))),
              !.out = Tensor(l.next + 1, DenseOut(l, x)),
              !.next = l.next + 3]

\* Dense.forward
DenseForward(l, x) ==
    [l EXCEPT !.at = Store(@, "inputs", x),
              !.out = Tensor(l.next, DenseOut(l, x)),
              !.next = l.next + 1]

\* dL_dout times self.weights, the transposition left out
DenseBackwardP1Untransposed(l, d) ==
    [l EXCEPT !.at = Store(@, "dL_dout", d),
              !.out = Tensor(l.next, MatMul(d, l.at["weights"].v)),
              !.next = l.next + 1]
\* Dense.backward_p1
DenseBackwardP1(l, d) ==
    [l EXCEPT !.at = Store(@, "dL_dout", d),
              !.out = Tensor(l.next,
                             MatMul(d, Transpose(l.at["weights"].v))),
              !.next = l.next + 1]

\* Dense.backward_p2: bias_g, then weights_g for 2 or 3 dimensions, else
\* the exception.
DenseBackwardP2(l) ==
    LET at1 == StoreGrad(l.at, "bias_g", ColSums(l.at["dL_dout"].v))
    IN IF l.ndim \in {2, 3}
       THEN [l EXCEPT !.at = StoreGrad(at1, "weights_g",
                                       MatMul(Transpose(l.at["inputs"].v),
                                              l.at["dL_dout"].v)),
                      !.out = NoTensor]
       ELSE [l EXCEPT !.at = at1, !.out = NoTensor, !.raised = TRUE]

\* ReLU has no constructor of its own.
ReLUNew == Built("ReLU", 0, 2, <<>>, 1)
Maximum0(x) ==
    [i \in DOMAIN x |-> [j \in DOMAIN x[i] |->
        IF x[i][j] > 0 THEN x[i][j] ELSE 0]]
\* torch.where(inputs > 0, 1.0, 0.0)
Positive(x) ==
    [i \in DOMAIN x |-> [j \in DOMAIN x[i] |-> IF x[i][j] > 0 THEN 1 ELSE 0]]

\* ReLU.initial_pass
ReLUInitialPass(l, x) ==
    [l EXCEPT !.at = Bind(@, "inputs", Tensor(l.next, ZerosLike(x))),
              !.out = Tensor(l.next + 1, Maximum0(x)),
              !.next = l.next + 2]
\* ReLU.forward
ReLUForward(l, x) ==
    [l EXCEPT !.at = Store(@, "inputs", x),
              !.out = Tensor(l.next, Maximum0(x)),
              !.next = l.next + 1]
\* ReLU.backward_p1
ReLUBackwardP1(l, d) ==
    [l EXCEPT !.out = Tensor(l.next, Hadamard(d, Positive(l.at["inputs"].v))),
              !.next = l.next + 1]

\* p as a percentage: 0, strictly between 0 and 1, 1.
DropProbs == {0, 50, 100}
\* Dropout.__init__
DropoutNew(p) == Built("Dropout", p, 2, <<>>, 1)
Masks == {<<<<1, 1>>, <<1, 1>>>>, <<<<0, 0>>, <<0, 0>>>>,
          <<<<1, 0>>, <<0, 1>>>>, <<<<0, 1>>, <<1, 1>>>>}
\* What torch.bernoulli(torch.ones_like(x) - p) can return.
Bernoulli(p, x) ==
    IF p = 0 THEN {OnesLike(x)}
    ELSE IF p = 100 THEN {ZerosLike(x)}
    ELSE Masks

\* Dropout.initial_pass, m the mask drawn
DropoutInitialPass(l, x, m) ==
    [l EXCEPT !.at = Bind(@, "p_mask", Tensor(l.next, m)),
              !.out = Tensor(l.next + 1, Hadamard(x, m)),
              !.next = l.next + 2,
              !.draws = @ + 1, !.sample = m]

\* "if self.p==0: return x"
DropoutSkipsP0(l) == l.p = 0
\* "if not self.training or self.p==0: return x"
DropoutSkips(l) == ~l.training \/ l.p = 0

\* Dropout.forward, m the mask drawn if one is drawn
DropoutForward(l, x, m) ==
    IF DropoutSkips(l) THEN [l EXCEPT !.out = l.arg]
    ELSE IF l.p = 100
    THEN [l EXCEPT !.out = Tensor(l.next, ZerosLike(x)),
                   !.next = l.next + 1]
    ELSE [l EXCEPT !.at = Store(@, "p_mask", m),
                   !.out = Tensor(l.next + 1, Hadamard(x, m)),
                   !.next = l.next + 2,
                   !.draws = @ + 1, !.sample = m]

\* Dropout.backward_p1
DropoutBackwardP1(l, d) ==
    IF l.p = 0 THEN [l EXCEPT !.out = l.arg]
    ELSE IF l.p = 100
    THEN [l EXCEPT !.out = Tensor(l.next, ZerosLike(d)),
                   !.next = l.next + 1]
    ELSE [l EXCEPT !.out = Tensor(l.next, Hadamard(d, l.at["p_mask"].v)),
                   !.next = l.next + 1]

\* BatchNorm2D: values are terms; a matrix enters a term as a leaf.
Sym(op, args) == <<op, "", args>>
Leaf(x) == <<"tensor", "", x>>
SymZeros == Sym("zeros", <<>>)
SymOnes == Sym("ones", <<>>)
\* (1 - momentum) * old + momentum * new
Ema(old, new) == Sym("ema", <<old, new>>)

\* BatchNorm2D.__init__
BatchNormNew ==
    Built("BatchNorm2D", 0, 4,
          ("gamma" :> Tensor(1, SymOnes)) @@ ("beta" :> Tensor(2, SymZeros))
          @@ ("gamma_g" :> Tensor(3, SymZeros))
          @@ ("beta_g" :> Tensor(4, SymZeros))
          @@ ("r_mean" :> Tensor(5, SymZeros))
          @@ ("r_var" :> Tensor(6, SymOnes)),
          7)

\* "if self.training: ... else: mean, var = self.r_mean, self.r_var": in
\* training r_mean and r_var are bound to new tensors.
BNStats(l, x) ==
    IF l.training
    THEN LET mean == Sym("mean", <<Leaf(x)>>)
             var == Sym("var", <<Leaf(x)>>)
         IN [mean |-> mean, var |-> var,
             at |-> Bind(Bind(l.at, "r_mean",
                              Tensor(l.next, Ema(l.at["r_mean"].v, mean))),
                         "r_var",
                         Tensor(l.next + 1, Ema(l.at["r_var"].v, var))),
             next |-> l.next + 2]
    ELSE [mean |-> l.at["r_mean"].v, var |-> l.at["r_var"].v,
          at |-> l.at, next |-> l.next]
BNSubMean(x, mean) == Sym("sub", <<Leaf(x), mean>>)
BNVar(var) == Sym("add_eps", <<var>>)
BNNorm(xsm, var) == Sym("div_sqrt", <<xsm, var>>)
BNOut(l, norm) == Sym("affine", <<l.at["gamma"].v, norm, l.at["beta"].v>>)

\* BatchNorm2D.initial_pass
BNInitialPass(l, x) ==
    LET st == BNStats(l, x)
        n == st.next
        xsm == BNSubMean(x, st.mean)
        var == BNVar(st.var)
        norm == BNNorm(xsm, var)
    IN [l EXCEPT !.at = ("x_sub_mean" :> Tensor(n, SymZeros))
                        @@ ("var" :> Tensor(n + 1, var))
                        @@ ("norm_x" :> Tensor(n + 2, norm))
                        @@ ("dL_dout" :> Tensor(n + 4, SymZeros))
                        @@ st.at,
                 !.out = Tensor(n + 3, BNOut(l, norm)),
                 !.next = n + 5]

\* BatchNorm2D.forward
BNForward(l, x) ==
    LET st == BNStats(l, x)
        xsm == BNSubMean(x, st.mean)
        var == BNVar(st.var)
        norm == BNNorm(xsm, var)
    IN [l EXCEPT !.at = Store(Store(Store(st.at, "x_sub_mean", xsm),
                                    "var", var), "norm_x", norm),
                 !.out = Tensor(st.next, BNOut(l, norm)),
                 !.next = st.next + 1]

\* BatchNorm2D.backward_p1
BNBackwardP1(l, d) ==
    [l EXCEPT !.at = Store(@, "dL_dout", Leaf(d)),
              !.out = Tensor(l.next,
                             Sym("input_grad",
                                 <<Leaf(d), l.at["gamma"].v,
                                   l.at["x_sub_mean"].v, l.at["var"].v>>)),
              !.next = l.next + 1]

\* BatchNorm2D.backward_p2
BNBackwardP2(l) ==
    [l EXCEPT !.at = Store(Store(@, "gamma_g",
                                 Sym("sum", <<Sym("mul",
                                                  <<l.at["dL_dout"].v,
                                                    l.at["norm_x"].v>>)>>)),
                           "beta_g", Sym("sum", <<l.at["dL_dout"].v>>)),
              !.out = NoTensor]

\* SiLU has no constructor of its own; its values are terms.
SiLUNew == Built("SiLU", 0, 2, <<>>, 1)
\* SiLU.initial_pass: "self.inputs = x" binds the attribute to the tensor
\* the caller passed.
SiLUInitialPass(l, x) ==
    [l EXCEPT !.at = Bind(@, "inputs", l.arg),
              !.out = Tensor(l.next, Sym("silu", <<Leaf(x)>>)),
              !.next = l.next + 1]
\* SiLU.forward: "self.inputs[:] = x" writes into that tensor.
SiLUForward(l, x) ==
    [l EXCEPT !.at = Store(@, "inputs", x),
              !.out = Tensor(l.next, Sym("silu", <<Leaf(x)>>)),
              !.next = l.next + 1]
\* SiLU.backward_p1
SiLUBackwardP1(l, d) ==
    [l EXCEPT !.out = Tensor(l.next,
                             Sym("silu_grad",
                                 <<Leaf(d), Leaf(l.at["inputs"].v)>>)),
              !.next = l.next + 1]

(***************************************************************************)
(* Conv2D, MaxPool2D and AvgPool2D at the level of shapes: a tensor        *)
(* (B, C, h, h) is the term Img(h), its values are left out.               *)
(***************************************************************************)
MaxImage == 6
\* "if self.stride[0] > 3 or self.stride[1] > 3: raise NotImplementedError"
MaxStride == 3
ImageSizes == 4 .. MaxImage
Img(h) == Sym("image", <<h>>)
SizeOf(t) == t[3][1]
\* F.conv2d, F.max_pool2d, F.avg_pool2d: spatial size of the output
SlidingOutSize(h, k, pad, stride) == (h + 2 * pad - k) \div stride + 1
\* F.conv_transpose2d: spatial size of the output
ConvTransposeOutSize(h, k, pad, stride, output_padding) ==
    (h - 1) * stride - 2 * pad + k + output_padding
\* F.max_unpool2d without output_size
MaxUnpoolOutSize(h, k, pad, stride) == (h - 1) * stride - 2 * pad + k
OutSize(l, x) == SlidingOutSize(SizeOf(x), l.k, l.pad, l.stride)

\* Conv2D.__init__, bias=True
ConvNew(k, pad, stride) ==
    [Built("Conv2D", 0, 4,
           ("kernel" :> Tensor(1, Sym("randn", <<k>>)))
           @@ ("bias" :> Tensor(2, SymZeros))
           @@ ("kernel_g" :> Tensor(3, SymZeros))
           @@ ("bias_g" :> Tensor(4, SymZeros)),
           5)
       EXCEPT !.k = k, !.pad = pad, !.stride = stride]
\* Conv2D.initial_pass
ConvInitialPass(l, x) ==
    [l EXCEPT !.at = Bind(Bind(@, "inputs", Tensor(l.next, x)),
                          "dL_dout", Tensor(l.next + 2, Img(OutSize(l, x)))),
              !.out = Tensor(l.next + 1, Img(OutSize(l, x))),
              !.next = l.next + 3]
\* Conv2D.forward
ConvForward(l, x) ==
    [l EXCEPT !.at = Store(@, "inputs", x),
              !.out = Tensor(l.next, Img(OutSize(l, x))),
              !.next = l.next + 1]
\* Conv2D.backward_p1: output_padding is stride - 1
ConvBackwardP1(l, d) ==
    [l EXCEPT !.at = Store(@, "dL_dout", d),
              !.out = Tensor(l.next,
                             Img(ConvTransposeOutSize(SizeOf(d), l.k, l.pad,
                                                      l.stride,
                                                      l.stride - 1))),
              !.next = l.next + 1]
\* Conv2D.backward_p2
ConvBackwardP2(l) ==
    [l EXCEPT !.at = Store(Store(@, "bias_g",
                                 Sym("sum", <<l.at["dL_dout"].v>>)),
                           "kernel_g",
                           Sym("sum", <<Sym("conv2d",
                                            <<l.at["inputs"].v,
                                              l.at["dL_dout"].v>>)>>)),
              !.out = NoTensor]

\* MaxPool2D.__init__, AvgPool2D.__init__
PoolNew(kind, k, stride) ==
    [Built(kind, 0, 4, <<>>, 1) EXCEPT !.k = k, !.stride = stride]
\* MaxPool2D.initial_pass
MaxPoolInitialPass(l, x) ==
    [l EXCEPT !.at = Bind(@, "indices", Tensor(l.next + 1,
                                               Img(OutSize(l, x)))),
              !.out = Tensor(l.next, Img(OutSize(l, x))),
              !.next = l.next + 2]
\* MaxPool2D.forward
MaxPoolForward(l, x) ==
    [l EXCEPT !.at = Store(@, "indices", Img(OutSize(l, x))),
              !.out = Tensor(l.next, Img(OutSize(l, x))),
              !.next = l.next + 1]
\* MaxPool2D.backward_p1
MaxPoolBackwardP1(l, d) ==
    [l EXCEPT !.out = Tensor(l.next,
                             Img(MaxUnpoolOutSize(SizeOf(d), l.k, l.pad,
                                                  l.stride))),
              !.next = l.next + 1]
\* AvgPool2D.forward; initial_pass is "return self.forward(x)"
AvgPoolForward(l, x) ==
    [l EXCEPT !.out = Tensor(l.next, Img(OutSize(l, x))),
              !.next = l.next + 1]
\* AvgPool2D.backward_p1: dL_dout times 1 / (k * k)
AvgPoolBackwardP1(l, d) ==
    [l EXCEPT !.out = Tensor(l.next, Img(SizeOf(d))),
              !.next = l.next + 1]

ImageKinds == {"Conv2D", "MaxPool2D", "AvgPool2D"}

(***************************************************************************)
(* llamaFF at the level of shapes: a tensor (..., n) is the term Vec(n).   *)
(***************************************************************************)
Vec(n) == Sym("vector", <<n>>)
\* hidden_dim as llamaFF.__init__ rounds it
LlamaHidden(hidden_dim, multiple_of) ==
    multiple_of * (((2 * hidden_dim) \div 3 + multiple_of - 1)
                   \div multiple_of)
\* llamaFF.__init__
LlamaNew(dim, hidden_dim, multiple_of) ==
    [Built("llamaFF", 0, 2, <<>>, 1)
       EXCEPT !.dim = dim, !.hidden = LlamaHidden(hidden_dim, multiple_of)]
\* The last dimension of a * b and of a + b; 0 where the sizes do not
\* broadcast and the operation raises.
Broadcast(a, b) ==
    IF a = b THEN a
    ELSE IF a = 1 THEN b
    ELSE IF b = 1 THEN a
    ELSE 0
\* llamaFF.initial_pass: l0 and l2 are (..., hidden), the output of
\* linears[1] is (..., dim).
LlamaShapeInitialPass(l, x) ==
    [l EXCEPT !.at = Bind(Bind(@, "l2", Tensor(l.next, Vec(l.hidden))),
                          "silu_out", Tensor(l.next + 1, Vec(l.hidden))),
              !.out = Tensor(l.next + 2, Vec(l.dim)),
              !.next = l.next + 3]
\* llamaFF.forward
LlamaShapeForward(l, x) ==
    [l EXCEPT !.at = Store(Store(@, "l2", Vec(l.hidden)),
                           "silu_out", Vec(l.hidden)),
              !.out = Tensor(l.next, Vec(l.dim)),
              !.next = l.next + 1]
\* llamaFF.backward_p1: linears[1] returns (..., hidden), linears[0] and
\* linears[2] return (..., dim), which is multiplied by self.l2 and by
\* self.silu_out.
LlamaShapeBackwardP1(l, d) ==
    LET dL_dx1 == Broadcast(l.dim, SizeOf(l.at["l2"].v))
        dL_dx2 == Broadcast(l.dim, SizeOf(l.at["silu_out"].v))
    IN IF dL_dx1 = 0 \/ dL_dx2 = 0 \/ Broadcast(dL_dx1, dL_dx2) = 0
       THEN [l EXCEPT !.out = NoTensor, !.raised = TRUE]
       ELSE [l EXCEPT !.out = Tensor(l.next, Vec(Broadcast(dL_dx1, dL_dx2))),
                      !.next = l.next + 1]

InitialPassOf(l, x, m) ==
    CASE l.kind = "Dense" -> DenseInitialPass(l, x)
      [] l.kind = "Conv2D" -> ConvInitialPass(l, x)
      [] l.kind = "MaxPool2D" -> MaxPoolInitialPass(l, x)
      [] l.kind = "AvgPool2D" -> AvgPoolForward(l, x)
      [] l.kind = "llamaFF" -> LlamaShapeInitialPass(l, x)
      [] l.kind = "ReLU" -> ReLUInitialPass(l, x)
      [] l.kind = "SiLU" -> SiLUInitialPass(l, x)
      [] l.kind = "Dropout" -> DropoutInitialPass(l, x, m)
      [] l.kind = "BatchNorm2D" -> BNInitialPass(l, x)
ForwardOf(l, x, m) ==
    CASE l.kind = "Dense" -> DenseForward(l, x)
      [] l.kind = "Conv2D" -> ConvForward(l, x)
      [] l.kind = "MaxPool2D" -> MaxPoolForward(l, x)
      [] l.kind = "AvgPool2D" -> AvgPoolForward(l, x)
      [] l.kind = "llamaFF" -> LlamaShapeForward(l, x)
      [] l.kind = "ReLU" -> ReLUForward(l, x)
      [] l.kind = "SiLU" -> SiLUForward(l, x)
      [] l.kind = "Dropout" -> DropoutForward(l, x, m)
      [] l.kind = "BatchNorm2D" -> BNForward(l, x)
BackwardP1Of(l, d) ==
    CASE l.kind = "Dense" -> DenseBackwardP1(l, d)
      [] l.kind = "Conv2D" -> ConvBackwardP1(l, d)
      [] l.kind = "MaxPool2D" -> MaxPoolBackwardP1(l, d)
      [] l.kind = "AvgPool2D" -> AvgPoolBackwardP1(l, d)
      [] l.kind = "llamaFF" -> LlamaShapeBackwardP1(l, d)
      [] l.kind = "ReLU" -> ReLUBackwardP1(l, d)
      [] l.kind = "SiLU" -> SiLUBackwardP1(l, d)
      [] l.kind = "Dropout" -> DropoutBackwardP1(l, d)
      [] l.kind = "BatchNorm2D" -> BNBackwardP1(l, d)
\* backward_p2 of ReLU, SiLU, Dropout and the poolings is "pass".
BackwardP2Of(l) ==
    CASE l.kind = "Dense" -> DenseBackwardP2(l)
      [] l.kind = "Conv2D" -> ConvBackwardP2(l)
      [] l.kind = "BatchNorm2D" -> BNBackwardP2(l)
      [] OTHER -> [l EXCEPT !.out = NoTensor]

\* The shape of what forward returns for x.
OutShape(l, x) ==
    IF l.kind = "Dense" THEN <<Rows(x), Cols(l.at["weights"].v)>>
    ELSE IF l.kind \in ImageKinds THEN <<OutSize(l, x)>>
    ELSE IF l.kind = "llamaFF" THEN <<l.dim>>
    ELSE Shape(x)
IdsOf(at) == [a \in DOMAIN at |-> at[a].id]

\* The caller hands method name the tensor v, a buffer of its own.
Called(l, name, v) ==
    [l EXCEPT !.pre = l.at, !.hist = Append(@, name), !.raised = FALSE,
              !.tr = l.training, !.pdraws = l.draws,
              !.arg = Tensor(l.next, v), !.next = l.next + 1]
CalledNoArg(l, name) ==
    [l EXCEPT !.pre = l.at, !.hist = Append(@, name), !.raised = FALSE,
              !.tr = l.training, !.pdraws = l.draws, !.arg = NoTensor]

\* The inputs whose last dimension the layer accepts, and the gradients of
\* the shape of its last output.
\* An image is at least as large as the kernel, and forward is given the
\* shape initial_pass was given.
LayerInputsOf(l) ==
    IF l.kind = "Dense"
    THEN {x \in LayerInputs \cup {FixedInput} :
             Cols(x) = Rows(l.at["weights"].v)}
    ELSE IF l.kind \in ImageKinds
    THEN IF l.phase = "new"
         THEN {Img(h) : h \in {i \in ImageSizes : i + 2 * l.pad >= l.k}}
         ELSE {l.x}
    ELSE IF l.kind = "llamaFF" THEN {Vec(l.dim)}
    ELSE LayerInputs
LayerGradsOf(l) ==
    IF l.kind \in ImageKinds THEN {Img(l.oshape[1])}
    ELSE IF l.kind = "llamaFF" THEN {Vec(l.oshape[1])}
    ELSE {d \in LayerGrads \cup {FixedGrad} : Shape(d) = l.oshape}
\* What torch.bernoulli can return in a call on x; only Dropout draws.
DrawsOf(l, x) == IF l.kind = "Dropout" THEN Bernoulli(l.p, x) ELSE {<<>>}

LayerConfigs ==
    {DenseNew(prm, nd) : prm \in DenseParams, nd \in {2, 3, 4}}
    \cup {DenseNew(FixedDense, 2)}
    \cup {ConvNew(k, pad, stride) :
             k \in {1, 3}, pad \in {0, 1}, stride \in 1 .. MaxStride}
    \cup {PoolNew(kind, k, stride) :
             kind \in {"MaxPool2D", "AvgPool2D"}, k \in {1, 2, 4},
             stride \in {1, 2}}
    \cup {LlamaNew(dim, hidden_dim, 2) : dim \in {2, 4}, hidden_dim \in {3, 6}}
    \cup {ReLUNew, BatchNormNew, SiLUNew}
    \cup {DropoutNew(p) : p \in DropProbs}

InitLayer ==
    /\ PipelineIdle
    /\ blk = NoBlock
    /\ lay \in LayerConfigs

LayerInitialPassCall ==
    /\ lay.phase = "new"
    /\ Len(lay.hist) < MaxCalls
    /\ \E x \in LayerInputsOf(lay) :
          \E m \in DrawsOf(lay, x) :
              LET r == InitialPassOf(Called(lay, "initial_pass", x), x, m)
              IN lay' = [r EXCEPT !.phase = "init", !.x = x,
                                  !.oshape = OutShape(lay, x),
                                  !.init = [ids |-> IdsOf(r.at),
                                            oshape |-> OutShape(lay, x),
                                            x0 |-> r.arg]]
    /\ UNCHANGED <<pvars, blk>>

LayerForwardCall ==
    /\ lay.phase # "new"
    /\ Len(lay.hist) < MaxCalls
    /\ \E x \in LayerInputsOf(lay) :
          \E m \in DrawsOf(lay, x) :
              LET r == ForwardOf(Called(lay, "forward", x), x, m)
              IN lay' = [r EXCEPT !.phase = "fwd", !.x = x,
                                  !.oshape = OutShape(lay, x),
                                  !.fsame = (r.out.id = r.arg.id)]
    /\ UNCHANGED <<pvars, blk>>

LayerBackwardP1Call ==
    /\ lay.phase \in {"fwd", "bp1", "bp2"}
    /\ Len(lay.hist) < MaxCalls
    /\ \E d \in LayerGradsOf(lay) :
          lay' = [BackwardP1Of(Called(lay, "backward_p1", d), d)
                    EXCEPT !.phase = "bp1", !.d = d]
    /\ UNCHANGED <<pvars, blk>>

LayerBackwardP2Call ==
    /\ lay.phase \in {"bp1", "bp2"}
    /\ Len(lay.hist) < MaxCalls
    /\ lay' = [BackwardP2Of(CalledNoArg(lay, "backward_p2"))
                 EXCEPT !.phase = "bp2"]
    /\ UNCHANGED <<pvars, blk>>

\* "self.training = False" for inference, and back.
LayerSetTraining ==
    /\ lay.kind \in {"Dropout", "BatchNorm2D"}
    /\ lay' = [lay EXCEPT !.training = ~@]
    /\ UNCHANGED <<pvars, blk>>

NextLayer ==
    \/ LayerInitialPassCall
    \/ LayerForwardCall
    \/ LayerBackwardP1Call
    \/ LayerBackwardP2Call
    \/ LayerSetTraining

SpecLayer == InitLayer /\ [][NextLayer]_vars

(***************************************************************************)
(* Call logs: what the claims about the order of calls are stated on.      *)
(***************************************************************************)
Fwds == [k \in Local |-> <<"forward", k>>]
P1sRev == [i \in Local |-> <<"backward_p1", LayersPerRank + 1 - i>>]
Only(log, names) == SelectSeq(log, LAMBDA e : e[1] \in names)
Count(log, e) == Cardinality({i \in DOMAIN log : log[i] = e})
Has(log, name) == \E i \in DOMAIN log : log[i][1] = name
\* Every backward_p2 of the log comes after an occurrence of event e.
P2After(log, e) ==
    \A j \in DOMAIN log :
        log[j][1] = "backward_p2" => \E i \in 1 .. (j - 1) : log[i] = e
Transfers == {"recv", "send", "forward", "backward_p1", "raise"}

InBackward(r) ==
    pc[r] \in {"b_recv", "b_loop", "b_send", "b_ms", "b_p2", "b_barrier",
               "b_wait", "b_sync"}
InUpdate(r) == pc[r] \in {"update", "u_barrier", "u_wait"}
\* Model.forward of this step has returned on rank r.
FwdDone(r) == pc[r] = "backward" \/ InBackward(r) \/ InUpdate(r)
\* Model.backward of this step has returned on rank r.
BwdReturned(r) == InUpdate(r)
\* Rank r has begun the forward pass of its current step.
FwdBegun(r) == pc[r] \in {"f_recv", "f_loop", "f_send", "f_ret"} \/ FwdDone(r)

InFlight(kind) ==
    {m \in UNION {{chan[p][i] : i \in DOMAIN chan[p]} : p \in Pairs} :
        m.kind = kind}

\* The same layers as one undivided Sequential on one rank: forward on the
\* input of step n, then backward_p1 on the loss gradient of its output.
AllIds(w) == [g \in 1 .. (w * LayersPerRank) |-> g]
RefForward(n, w) ==
    SeqForward(AllIds(w), [g \in 1 .. (w * LayersPerRank) |-> Zeros], Input(n))
RefInputGrad(n, w) ==
    SeqBackwardP1(AllIds(w), RefForward(n, w).cache,
                  LossGrad(RefForward(n, w).out))

(***************************************************************************)
(* Claims                                                                  *)
(***************************************************************************)

\* C1: with W = 3 ranks and LayersPerRank layers each, one forward and one
\* backward call each rank's layers' forward in order and then their
\* backward_p1 in reverse order, and the gradient rank 0 holds after its
\* backward_p1 loop is the input gradient of the undivided Sequential.
C1_PipelineMatchesSequential ==
    W = 3 =>
        /\ \A r \in Live :
              step[r] = 1 =>
                  IsPrefix(Only(flog[r] \o blog[r], {"forward", "backward_p1"}),
                           Fwds \o P1sRev)
        /\ (step[0] = 1 /\ (pc[0] \in {"b_barrier", "b_wait", "b_sync"}
                            \/ InUpdate(0)))
              => selfdL[0] = RefInputGrad(1, 3)

\* C2: on an interior rank backward receives from rank r+1, calls
\* backward_p1 on the local layers in reverse order, sends to rank r-1, and
\* only then calls backward_p2.
C2_InteriorBackwardOrder ==
    \A r \in Live :
        (0 < r /\ r < W - 1) =>
            /\ IsPrefix(Only(blog[r], Transfers),
                        <<<<"recv", r + 1>>>> \o P1sRev \o <<<<"send", r - 1>>>>)
            /\ P2After(blog[r], <<"send", r - 1>>)

\* C3: on rank 0 of W >= 2 ranks backward receives from rank 1, calls
\* backward_p1 on all local layers in reverse order, only after the last of
\* them calls backward_p2, on every local layer exactly once, and sends
\* nothing.
C3_FirstRankBackwardOrder ==
    W >= 2 =>
        /\ IsPrefix(Only(blog[0], Transfers), <<<<"recv", 1>>>> \o P1sRev)
        /\ P2After(blog[0], <<"backward_p1", 1>>)
        /\ \A k \in Local : Count(blog[0], <<"backward_p2", k>>) <= 1
        /\ Has(blog[0], "barrier") =>
              \A k \in Local : Count(blog[0], <<"backward_p2", k>>) = 1

\* C4: on the last rank of W >= 2 ranks backward calls backward_p1 in
\* reverse order on the loss gradient, sends the result to rank W-2, then
\* calls backward_p2 on every local layer; it receives nothing.
C4_LastRankBackwardOrder ==
    W >= 2 =>
        /\ IsPrefix(Only(blog[W - 1], Transfers),
                    P1sRev \o <<<<"send", W - 2>>>>)
        /\ P2After(blog[W - 1], <<"send", W - 2>>)
        /\ \A k \in Local : Count(blog[W - 1], <<"backward_p2", k>>) <= 1
        /\ Has(blog[W - 1], "barrier") =>
              \A k \in Local : Count(blog[W - 1], <<"backward_p2", k>>) = 1

\* C5: in forward with W >= 2, rank 0 runs its layers in order and then
\* sends to rank 1; an interior rank receives from r-1, runs its layers, then
\* sends to r+1; the last rank receives from W-2, runs its layers and
\* returns the output of the whole chain without sending; no other rank
\* returns an output.
FwdExpected(r) ==
    (IF r = 0 THEN <<>> ELSE <<<<"recv", r - 1>>>>)
    \o Fwds
    \o (IF r = W - 1 THEN <<<<"return", 0>>>> ELSE <<<<"send", r + 1>>>>)
C5_ForwardOrder ==
    W >= 2 =>
        \A r \in Live :
            /\ IsPrefix(flog[r], FwdExpected(r))
            /\ FwdDone(r) => flog[r] = FwdExpected(r)
            /\ ret[r] # NoneVal => r = W - 1
            /\ (FwdDone(r) /\ r = W - 1) => ret[r] = RefForward(step[r], W).out
C5_Witness ==
    /\ W = 3
    /\ \A r \in Live : FwdDone(r)
    /\ ret[2] # NoneVal

C7_NoForwardDuringGradTransfer ==
    \A r \in Live :
        (step[r] >= 2 /\ FwdBegun(r)) =>
            \A m \in InFlight("grad") : m.step >= step[r]
C7_Witness ==
    \E r \in Live : step[r] = 2 /\ pc[r] \in {"f_recv", "f_loop"}

\* C8: with W >= 2, every message goes to the adjacent rank (r+1 for an
\* activation, r-1 for a gradient), at most one is in flight per pair, and
\* once no rank can take a step no receive is left unmatched and no message
\* undelivered: each adjacent pair has exchanged its one message.
C8_PairedTransfers ==
    W >= 2 =>
        /\ \A p \in Pairs :
              /\ Len(chan[p]) <= 1
              /\ \A i \in DOMAIN chan[p] :
                    p[2] = (IF chan[p][i].kind = "act" THEN p[1] + 1
                            ELSE p[1] - 1)
        /\ ~ENABLED Next =>
              /\ \A r \in Live : pc[r] \notin {"f_recv", "b_recv"}
              /\ \A p \in Pairs : chan[p] = <<>>

\* C9: in every step and on every rank, backward_p2 of a layer is called
\* only after backward_p1 of that layer has been called in the same step.
C9_P2AfterP1 ==
    \A r \in Live :
        \A j \in DOMAIN blog[r] :
            blog[r][j][1] = "backward_p2" =>
                \E i \in 1 .. (j - 1) :
                    blog[r][i] = <<"backward_p1", blog[r][j][2]>>
C9_Witness ==
    /\ W >= 2
    /\ Has(blog[0], "backward_p2")
    /\ Has(blog[W - 1], "backward_p2")

SkipKinds == {"BertBlock", "BasicResNetBlock", "ResNetBottleneck"}

\* C10: in every block with a skip connection, at each residual addition
\* backward_p1 hands the shortcut branch the gradient it hands the main
\* branch, the gradient at the addition, and combines the two branches'
\* results by adding them; the block returns the last such sum.
C10_ResidualSameGradient ==
    (blk.phase = "bp1" /\ blk.kind \in SkipKinds) =>
        /\ blk.res # <<>>
        /\ \A i \in DOMAIN blk.res :
              /\ blk.res[i].main = blk.res[i].at
              /\ blk.res[i].skip = blk.res[i].at
              /\ blk.res[i].sum = Add(blk.res[i].mainOut, blk.res[i].skipOut)
        /\ blk.out = blk.res[Len(blk.res)].sum

(***************************************************************************)
(* Calls of a composite on its children.                                   *)
(***************************************************************************)
CallsOf(calls, method) == SelectSeq(calls, LAMBDA c : c.method = method)
ChildrenOf(calls, method) ==
    LET sel == CallsOf(calls, method)
    IN [i \in DOMAIN sel |-> sel[i].child]
Position(seq, c) == CHOOSE i \in DOMAIN seq : seq[i] = c
Once(seq, c) == Cardinality({i \in DOMAIN seq : seq[i] = c}) = 1
LeafOps == {"x", "dL_dout", "attr", "stream", "None", "zeros", "softmax"}
RECURSIVE Mentions(_, _)
\* Tensor t is computed from the forward output of child c.
Mentions(t, c) ==
    IF t[1] \in LeafOps THEN FALSE
    ELSE \/ t[1] = "forward" /\ t[2] = c
         \/ \E i \in DOMAIN t[3] : Mentions(t[3][i], c)

Composites == {"MultiHeadAttention", "BertBlock", "BasicResNetBlock",
               "ResNetBottleneck", "ResNet", "llamaFF"}
\* The composites whose forward is one chain of children.
SingleChain(b) ==
    \/ b.kind \in {"BertBlock", "ResNet"}
    \/ b.kind \in {"BasicResNetBlock", "ResNetBottleneck"} /\ ~b.sc

C12_P2EachParameterizedChildOnce ==
    blk.phase = "bp2" =>
        LET p2 == ChildrenOf(blk.calls, "backward_p2")
        IN /\ ~blk.raised
           /\ \A c \in Parameterized(blk) : Once(p2, c)

StreamOf(call) == call.arg[3][1]
OnStream(call) == call.arg[1] = "stream"

Threaded(calls, method, order, v, out) ==
    /\ Len(calls) = Len(order)
    /\ \A i \in DOMAIN calls :
          /\ calls[i].child = order[i]
          /\ calls[i].method = method
          /\ calls[i].arg = IF i = 1 THEN v
                            ELSE Value(method, calls[i - 1].child,
                                       calls[i - 1].arg)
    /\ out = Value(method, calls[Len(calls)].child, calls[Len(calls)].arg)

\* C14: a Sequential of n layers calls the layers' forward in list order,
\* layer i+1 on the output of layer i, and backward_p1 calls each layer's
\* backward_p1 exactly once, in reverse list order, layer i on the gradient
\* layer i+1 returned.
C14_SequentialOrder ==
    blk.kind = "Sequential" =>
        /\ blk.phase = "fwd" =>
              Threaded(blk.calls, "forward", SeqLayers(blk.n), blk.x, blk.out)
        /\ blk.phase = "bp1" =>
              /\ Threaded(blk.calls, "backward_p1",
                          [i \in 1 .. blk.n |->
                             SeqLayers(blk.n)[blk.n + 1 - i]],
                          blk.d, blk.out)
              /\ \A i \in 1 .. blk.n :
                    Once(ChildrenOf(blk.calls, "backward_p1"),
                         SeqLayers(blk.n)[i])
C14_Witness ==
    /\ blk.kind = "Sequential"
    /\ blk.n = MaxSeqLen
    /\ blk.phase = "bp1"
    /\ Len(blk.calls) = MaxSeqLen

\* C15: the composite's initial_pass runs once, before its first forward,
\* and invokes each child's initial_pass exactly once; the composite's
\* forward never invokes a child's initial_pass, so that after any number
\* of forward calls every child has been initialised exactly once.
C15_ChildInitialPassOnce ==
    blk.phase # "new" =>
        /\ \A i \in DOMAIN blk.ilog : Once(blk.ilog, blk.ilog[i])
        /\ \A i \in DOMAIN blk.fcalls : Once(blk.ilog, blk.fcalls[i].child)
        /\ ChildrenOf(blk.fcalls, "initial_pass") = <<>>

(***************************************************************************)
(* Primitive layers: buffers and values.                                   *)
(***************************************************************************)
LastCall == lay.hist[Len(lay.hist)]
Forwarded == \E i \in DOMAIN lay.hist : lay.hist[i] = "forward"

\* C16: after initial_pass, forward calls never reallocate: every tensor
\* attribute the layer holds at the end of initial_pass is bound to the
\* same buffer after each later forward, no attribute is added, and the
\* output has the shape it had in initial_pass.
C16_ForwardNeverReallocates ==
    (lay.phase # "new" /\ Forwarded) =>
        /\ DOMAIN lay.at = DOMAIN lay.init.ids
        /\ \A a \in DOMAIN lay.init.ids : lay.at[a].id = lay.init.ids[a]
        /\ lay.oshape = lay.init.oshape

\* The sum over the samples b of x[b][i] * d[b][j].
OuterSum(x, d, i, j) == SumSeq([b \in 1 .. Rows(x) |-> x[b][i] * d[b][j]])
TwiceP2 ==
    /\ Len(lay.hist) >= 2
    /\ lay.hist[Len(lay.hist) - 1] = "backward_p2"
    /\ LastCall = "backward_p2"

\* C18: parameter gradients are overwritten, not accumulated: after
\* backward_p2 the gradient buffers hold the gradient of the input of the
\* latest forward and the dL_dout of the latest backward_p1, whatever they
\* held before, and a second backward_p2 in a row changes nothing.
C18_GradientsOverwritten ==
    (lay.phase = "bp2" /\ ~lay.raised) =>
        /\ lay.kind = "Dense" =>
              /\ \A i \in 1 .. Cols(lay.x) : \A j \in 1 .. Cols(lay.d) :
                    lay.at["weights_g"].v[i][j]
                        = OuterSum(lay.x, lay.d, i, j)
              /\ \A j \in 1 .. Cols(lay.d) :
                    lay.at["bias_g"].v[1][j]
                        = SumSeq([b \in 1 .. Rows(lay.d) |-> lay.d[b][j]])
        /\ lay.kind = "BatchNorm2D" =>
              /\ lay.at["gamma_g"].v
                    = Sym("sum", <<Sym("mul", <<Leaf(lay.d),
                                                lay.at["norm_x"].v>>)>>)
              /\ lay.at["beta_g"].v = Sym("sum", <<Leaf(lay.d)>>)
        /\ TwiceP2 => lay.at = lay.pre
C18_Witness ==
    /\ lay.kind = "Dense"
    /\ lay.phase = "bp2"
    /\ ~lay.raised
    /\ TwiceP2
    /\ lay.at["weights_g"].v # ZerosLike(lay.at["weights_g"].v)

\* C19: Dropout with 0 < p < 1 draws a new mask in every forward while
\* training is True: the cached mask is the mask torch.bernoulli returned
\* in this call and the output is the input times it.  With training False
\* forward draws nothing and leaves the cached mask as it was.
C19_MaskResampledInTrainingOnly ==
    (lay.kind = "Dropout" /\ lay.phase = "fwd" /\ LastCall = "forward") =>
        /\ (lay.tr /\ lay.p \notin {0, 100}) =>
              /\ lay.draws = lay.pdraws + 1
              /\ lay.at["p_mask"].v = lay.sample
              /\ lay.at["p_mask"].id = lay.pre["p_mask"].id
              /\ lay.out.v = Hadamard(lay.x, lay.sample)
        /\ ~lay.tr =>
              /\ lay.draws = lay.pdraws
              /\ lay.at = lay.pre
C19_Witness ==
    /\ lay.kind = "Dropout"
    /\ lay.p \notin {0, 100}
    /\ lay.phase = "fwd"
    /\ LastCall = "forward"
    /\ ~lay.tr
    /\ lay.draws >= 2

AllZero(v) == \A i \in DOMAIN v : \A j \in DOMAIN v[i] : v[i][j] = 0

\* C20: in training mode a Dropout with p = 0 returns its input unchanged
\* from forward and its gradient argument unchanged from backward_p1; with
\* p = 1 it returns an all-zero tensor of the argument's shape from both.
C20_DropoutEdgeProbabilities ==
    (lay.kind = "Dropout" /\ lay.tr) =>
        /\ (lay.phase = "fwd" /\ LastCall = "forward") =>
              /\ lay.p = 0 => lay.out.v = lay.x
              /\ lay.p = 100 =>
                    AllZero(lay.out.v) /\ Shape(lay.out.v) = Shape(lay.x)
        /\ (lay.phase = "bp1" /\ LastCall = "backward_p1") =>
              /\ lay.p = 0 => lay.out.v = lay.d
              /\ lay.p = 100 =>
                    AllZero(lay.out.v) /\ Shape(lay.out.v) = Shape(lay.d)
C20_Witness ==
    /\ lay.kind = "Dropout"
    /\ lay.tr
    /\ lay.p = 100
    /\ lay.phase = "bp1"
    /\ LastCall = "backward_p1"
    /\ ~AllZero(lay.d)
    /\ AllZero(lay.out.v)

\* C17: on every receiving rank the buffer passed to dist.recv in
\* Model.forward and in Model.backward is, in every step, the buffer
\* allocated at model initialisation.
C17_RecvIntoPreallocated ==
    \A r \in Live :
        \A i \in DOMAIN bufs[r].recvd : bufs[r].recvd[i] = Prealloc

(***************************************************************************)
(* C21: Dense(4, 3) with weights [[1,0,0],[0,1,0],[0,0,1],[1,1,1]], bias   *)
(* [0,0,0] and the input [1,2,3,4] as a batch of one: forward returns      *)
(* [5,6,7]; backward_p1 of [1,1,1] returns [1,1,1,3]; after backward_p2    *)
(* weights_g is the outer product of the input and the gradient and bias_g *)
(* is [1,1,1].                                                             *)
(***************************************************************************)
IsFixedDense ==
    /\ lay.kind = "Dense"
    /\ lay.at["weights"].v = FixedDense.weights
    /\ lay.at["bias"].v = FixedDense.bias
C21_DenseFixedScenario ==
    IsFixedDense =>
        /\ lay.phase = "fwd" /\ lay.x = FixedInput
               => lay.out.v = <<<<5, 6, 7>>>>
        /\ lay.phase = "bp1" /\ lay.d = FixedGrad
               => lay.out.v = <<<<1, 1, 1, 3>>>>
        /\ lay.phase = "bp2" /\ lay.x = FixedInput /\ lay.d = FixedGrad
               => /\ lay.at["weights_g"].v =
                        [i \in 1 .. 4 |->
                            [j \in 1 .. 3 |->
                                FixedInput[1][i] * FixedGrad[1][j]]]
                  /\ lay.at["bias_g"].v = <<<<1, 1, 1>>>>
C21_Witness ==
    /\ IsFixedDense
    /\ lay.hist = <<"initial_pass", "forward", "backward_p1", "backward_p2">>
    /\ lay.at["weights_g"].v[4] = <<4, 4, 4>>

(***************************************************************************)
(* C22: a Dense layer whose input has a number of dimensions other than 2  *)
(* or 3 reports the failure at the first call that receives the input:     *)
(* initial_pass and forward raise on it.                                   *)
(***************************************************************************)
C22_UnsupportedRankAtFirstCall ==
    (lay.kind = "Dense" /\ lay.ndim \notin {2, 3}
        /\ lay.phase \in {"init", "fwd"})
        => lay.raised

(***************************************************************************)
(* C23: with two or more ranks that each call forward and then backward,   *)
(* every rank eventually returns from backward, past the barrier and the   *)
(* device synchronization.                                                 *)
(***************************************************************************)
StepFinished(r) == step[r] > 1 \/ InUpdate(r)
C23_EveryRankFinishesStep ==
    (W >= 2) => <>(\A r \in Live : StepFinished(r))

(***************************************************************************)
(* C24: forward(x) returns what initial_pass(x) returned for the same x    *)
(* and the same parameters (dropout with p = 0): MultiHeadAttention        *)
(* normalises its scores over the same scores in both methods.             *)
(***************************************************************************)
C24_InitialPassComputesForward ==
    (blk.phase = "fwd" /\ blk.x = blk.ix) => blk.out = blk.iout

(***************************************************************************)
(* C25: Conv2D.backward_p1, given a gradient of the size of the forward    *)
(* output, returns an input gradient of the spatial size of the input,     *)
(* for every stride from 1 to 3, kernel size and padding.                  *)
(***************************************************************************)
C25_ConvInputGradientSize ==
    (lay.kind = "Conv2D" /\ lay.phase = "bp1"
        /\ SizeOf(lay.d) = OutSize(lay, lay.x))
        => SizeOf(lay.out.v) = SizeOf(lay.x)

(***************************************************************************)
(* C26: backward_p1, given a gradient of the shape forward last returned,  *)
(* returns a gradient of the shape of the input forward last received:     *)
(* AvgPool2D returns the spatial size of its input, llamaFF returns        *)
(* (..., dim).                                                             *)
(***************************************************************************)
C26_GradientHasInputShape ==
    lay.phase = "bp1" =>
        /\ ~lay.raised
        /\ lay.kind \in {"Dense", "ReLU", "Dropout"}
              => Shape(lay.out.v) = Shape(lay.x)
        /\ lay.kind \in ImageKinds \cup {"llamaFF"}
              => SizeOf(lay.out.v) = SizeOf(lay.x)

(***************************************************************************)
(* C27: Dropout.backward_p1 multiplies the gradient by the mask the most   *)
(* recent forward applied: where that forward returned its input           *)
(* unchanged, backward_p1 returns the gradient unchanged; where it drew a  *)
(* mask, backward_p1 returns the gradient times that mask.                 *)
(***************************************************************************)
C27_BackwardUsesForwardMask ==
    (lay.kind = "Dropout" /\ lay.phase = "bp1") =>
        /\ lay.fsame => lay.out.v = lay.d
        /\ (~lay.fsame /\ lay.p \notin {0, 100})
              => lay.out.v = Hadamard(lay.d, lay.sample)
        /\ (~lay.fsame /\ lay.p = 100) => AllZero(lay.out.v)

(***************************************************************************)
(* C28: a rank takes the same role, first, interior or last, in forward    *)
(* and in backward of a step, whatever the number of ranks; a single rank  *)
(* neither sends nor receives.                                             *)
(***************************************************************************)
C28_SameRoleInForwardAndBackward ==
    \A r \in Live :
        /\ FwdBegun(r) => ForwardRole(r, W) = BackwardRole(r, W)
        /\ W = 1 =>
              \A i \in DOMAIN (flog[r] \o blog[r]) :
                  (flog[r] \o blog[r])[i][1] \notin {"send", "recv", "raise"}

(***************************************************************************)
(* C29: no forward or backward_p1 writes into a tensor of the caller: the  *)
(* tensor x0 that initial_pass was given holds its values after every      *)
(* later call, whatever attribute of the layer is bound to it.             *)
(***************************************************************************)
C29_CallerTensorUntouched ==
    lay.phase # "new" =>
        \A a \in DOMAIN lay.at :
            lay.at[a].id = lay.init.x0.id => lay.at[a].v = lay.init.x0.v

(***************************************************************************)
(* C30: init_params partitions the model: the local blocks created on the  *)
(* ranks add up to num_blocks, for every num_blocks and number of ranks.   *)
(***************************************************************************)
BlocksCreated == SumSeq([i \in 1 .. W |-> bufs[i - 1].local])
C30_BlocksPartitioned ==
    W >= 1 => BlocksCreated = bufs[0].num_blocks

====
